---------------------------- MODULE Spec2Model ----------------------------
(***************************************************************************)
(* A model of the RPKI certificate tree of src/src/PKITree.py (class       *)
(* PKITree and buildTree) and of the range summarisation of                *)
(* src/src/imports.py.                                                     *)
(*                                                                         *)
(* Encoding of Python values                                               *)
(*   None / a value v        <<>> / <<v>>            (None, Some)          *)
(*   dict (insertion order)  sequence of <<key, value>> entries            *)
(*   JSON object             record, one field per key that is present     *)
(*   str used as an id       string                                        *)
(*   str that is processed   sequence of one-character strings             *)
(*   ASN n (0 .. 2^32-1)     <<n \div 65536, n % 65536>>                   *)
(*   "a.b.c.d/len", "x::/len"  [fam, net, len]: fam is 6 when the text     *)
(*                           holds a ':' and 4 otherwise, net is the       *)
(*                           number made of the first len address bits     *)
(*   IPv4 address a.b.c.d    the number a*2^24 + b*2^16 + c*2^8 + d        *)
(*   PyTricia                function from stored prefixes to their value  *)
(*   a raised exception      [exc |-> its name, val |-> None]              *)
(***************************************************************************)
EXTENDS Integers, Sequences, FiniteSets, TLC

(***************************************************************************)
(* Bounds of the model.                                                    *)
(***************************************************************************)
\* buildTree stops inserting once the tree holds this many nodes
MaxNodes == 3
\* get_path is followed for at most this many appended entries
MaxPathLen == 4
\* get_resource_list is followed for at most this many queue pops
MaxVisits == 6
\* get_cidr is called for the ranges between CidrWindow successive addresses
CidrWindow == 16
\* ranges of up to this many addresses are compared with every shorter cover
MaxBruteRange == 6

(***************************************************************************)
(* Python values.                                                          *)
(***************************************************************************)
None == <<>>
Some(v) == <<v>>
Return(v) == [exc |-> "", val |-> v]
Raise(e) == [exc |-> e, val |-> None]

Range(s) == {s[i] : i \in 1..Len(s)}

\* dict: k in d, d[k], d.get(k, None), d[k] = v, list(d.keys())
HasKey(d, k) == \E i \in 1..Len(d) : d[i][1] = k
DictGet(d, k) == d[CHOOSE i \in 1..Len(d) : d[i][1] = k][2]
DictGetOrNone(d, k) == IF HasKey(d, k) THEN Some(DictGet(d, k)) ELSE None
DictSet(d, k, v) ==
    IF HasKey(d, k)
    THEN [i \in 1..Len(d) |-> IF d[i][1] = k THEN <<k, v>> ELSE d[i]]
    ELSE Append(d, <<k, v>>)
DictKeys(d) == [i \in 1..Len(d) |-> d[i][1]]

(***************************************************************************)
(* Text: a str is the list of its characters.  A character up to U+00FF is *)
(* the string of that character; a character above it is the string of its *)
(* code point, "U+" and four to six hexadecimal digits ("U+03B1").  The     *)
(* tables of characters are those of Unicode 14.0 (CPython 3.11).  The     *)
(* operators halve a text where they search it, so that a text of          *)
(* thousands of characters needs few nested steps.                         *)
(***************************************************************************)
\* the first index from lo to hi at which b is true, 0 when there is none
RECURSIVE first_true(_, _, _)
first_true(b, lo, hi) ==
    IF lo > hi THEN 0
    ELSE IF lo = hi THEN (IF b[lo] THEN lo ELSE 0)
    ELSE LET mid == (lo + hi) \div 2
             left == first_true(b, lo, mid)
         IN  IF left # 0 THEN left ELSE first_true(b, mid + 1, hi)

\* the last index from lo to hi at which b is true, 0 when there is none
RECURSIVE last_true(_, _, _)
last_true(b, lo, hi) ==
    IF lo > hi THEN 0
    ELSE IF lo = hi THEN (IF b[lo] THEN lo ELSE 0)
    ELSE LET mid == (lo + hi) \div 2
             right == last_true(b, mid + 1, hi)
         IN  IF right # 0 THEN right ELSE last_true(b, lo, mid)

\* old is in s at index i
str_at(s, old, i) ==
    /\ i + Len(old) - 1 <= Len(s)
    /\ \A k \in 1..Len(old) : s[i + k - 1] = old[k]

\* s.replace(old, "") over the characters lo to hi of s, read from the
\* left: skip is how many characters of an occurrence found before lo are
\* still to be left out; the result is <<text kept, skip after hi>>
RECURSIVE str_remove_range(_, _, _, _, _)
str_remove_range(s, old, lo, hi, skip) ==
    IF lo > hi THEN <<<<>>, skip>>
    ELSE IF lo = hi
    THEN IF skip > 0 THEN <<<<>>, skip - 1>>
         ELSE IF str_at(s, old, lo) THEN <<<<>>, Len(old) - 1>>
         ELSE <<<<s[lo]>>, 0>>
    ELSE LET mid == (lo + hi) \div 2
             left == str_remove_range(s, old, lo, mid, skip)
             right == str_remove_range(s, old, mid + 1, hi, left[2])
         IN  <<left[1] \o right[1], right[2]>>

\* s.replace(old, ""): the occurrences of old are taken out from the left
str_remove(s, old) ==
    IF old = <<>> THEN s ELSE str_remove_range(s, old, 1, Len(s), 0)[1]

\* s.split(sep)[0] for a character sep
str_split_first(s, sep) ==
    LET i == first_true([k \in 1..Len(s) |-> s[k] = sep], 1, Len(s))
    IN  IF i = 0 THEN s ELSE SubSeq(s, 1, i - 1)

\* str.upper: what each character that upper changes becomes, a to z in
\* AsciiUpper and every other one in LowerToUpper (some become two or
\* three characters); upper leaves the other characters as they are
AsciiUpper ==
    [a |-> "A", b |-> "B", c |-> "C", d |-> "D", e |-> "E", f |-> "F",
     g |-> "G", h |-> "H", i |-> "I", j |-> "J", k |-> "K", l |-> "L",
     m |-> "M", n |-> "N", o |-> "O", p |-> "P", q |-> "Q", r |-> "R",
     s |-> "S", t |-> "T", u |-> "U", v |-> "V", w |-> "W", x |-> "X",
     y |-> "Y", z |-> "Z"]
LowerToUpper ==
    <<
     <<"µ", <<"U+039C">>>>, <<"ß", <<"S", "S">>>>, <<"à", <<"À">>>>,
     <<"á", <<"Á">>>>, <<"â", <<"Â">>>>, <<"ã", <<"Ã">>>>, <<"ä", <<"Ä">>>>,
     <<"å", <<"Å">>>>, <<"æ", <<"Æ">>>>, <<"ç", <<"Ç">>>>, <<"è", <<"È">>>>,
     <<"é", <<"É">>>>, <<"ê", <<"Ê">>>>, <<"ë", <<"Ë">>>>, <<"ì", <<"Ì">>>>,
     <<"í", <<"Í">>>>, <<"î", <<"Î">>>>, <<"ï", <<"Ï">>>>, <<"ð", <<"Ð">>>>,
     <<"ñ", <<"Ñ">>>>, <<"ò", <<"Ò">>>>, <<"ó", <<"Ó">>>>, <<"ô", <<"Ô">>>>,
     <<"õ", <<"Õ">>>>, <<"ö", <<"Ö">>>>, <<"ø", <<"Ø">>>>, <<"ù", <<"Ù">>>>,
     <<"ú", <<"Ú">>>>, <<"û", <<"Û">>>>, <<"ü", <<"Ü">>>>, <<"ý", <<"Ý">>>>,
     <<"þ", <<"Þ">>>>, <<"ÿ", <<"U+0178">>>>, <<"U+0101", <<"U+0100">>>>,
     <<"U+0103", <<"U+0102">>>>, <<"U+0105", <<"U+0104">>>>,
     <<"U+0107", <<"U+0106">>>>, <<"U+0109", <<"U+0108">>>>,
     <<"U+010B", <<"U+010A">>>>, <<"U+010D", <<"U+010C">>>>,
     <<"U+010F", <<"U+010E">>>>, <<"U+0111", <<"U+0110">>>>,
     <<"U+0113", <<"U+0112">>>>, <<"U+0115", <<"U+0114">>>>,
     <<"U+0117", <<"U+0116">>>>, <<"U+0119", <<"U+0118">>>>,
     <<"U+011B", <<"U+011A">>>>, <<"U+011D", <<"U+011C">>>>,
     <<"U+011F", <<"U+011E">>>>, <<"U+0121", <<"U+0120">>>>,
     <<"U+0123", <<"U+0122">>>>, <<"U+0125", <<"U+0124">>>>,
     <<"U+0127", <<"U+0126">>>>, <<"U+0129", <<"U+0128">>>>,
     <<"U+012B", <<"U+012A">>>>, <<"U+012D", <<"U+012C">>>>,
     <<"U+012F", <<"U+012E">>>>, <<"U+0131", <<"I">>>>,
     <<"U+0133", <<"U+0132">>>>, <<"U+0135", <<"U+0134">>>>,
     <<"U+0137", <<"U+0136">>>>, <<"U+013A", <<"U+0139">>>>,
     <<"U+013C", <<"U+013B">>>>, <<"U+013E", <<"U+013D">>>>,
     <<"U+0140", <<"U+013F">>>>, <<"U+0142", <<"U+0141">>>>,
     <<"U+0144", <<"U+0143">>>>, <<"U+0146", <<"U+0145">>>>,
     <<"U+0148", <<"U+0147">>>>, <<"U+0149", <<"U+02BC", "N">>>>,
     <<"U+014B", <<"U+014A">>>>, <<"U+014D", <<"U+014C">>>>,
     <<"U+014F", <<"U+014E">>>>, <<"U+0151", <<"U+0150">>>>,
     <<"U+0153", <<"U+0152">>>>, <<"U+0155", <<"U+0154">>>>,
     <<"U+0157", <<"U+0156">>>>, <<"U+0159", <<"U+0158">>>>,
     <<"U+015B", <<"U+015A">>>>, <<"U+015D", <<"U+015C">>>>,
     <<"U+015F", <<"U+015E">>>>, <<"U+0161", <<"U+0160">>>>,
     <<"U+0163", <<"U+0162">>>>, <<"U+0165", <<"U+0164">>>>,
     <<"U+0167", <<"U+0166">>>>, <<"U+0169", <<"U+0168">>>>,
     <<"U+016B", <<"U+016A">>>>, <<"U+016D", <<"U+016C">>>>,
     <<"U+016F", <<"U+016E">>>>, <<"U+0171", <<"U+0170">>>>,
     <<"U+0173", <<"U+0172">>>>, <<"U+0175", <<"U+0174">>>>,
     <<"U+0177", <<"U+0176">>>>, <<"U+017A", <<"U+0179">>>>,
     <<"U+017C", <<"U+017B">>>>, <<"U+017E", <<"U+017D">>>>,
     <<"U+017F", <<"S">>>>, <<"U+0180", <<"U+0243">>>>,
     <<"U+0183", <<"U+0182">>>>, <<"U+0185", <<"U+0184">>>>,
     <<"U+0188", <<"U+0187">>>>, <<"U+018C", <<"U+018B">>>>,
     <<"U+0192", <<"U+0191">>>>, <<"U+0195", <<"U+01F6">>>>,
     <<"U+0199", <<"U+0198">>>>, <<"U+019A", <<"U+023D">>>>,
     <<"U+019E", <<"U+0220">>>>, <<"U+01A1", <<"U+01A0">>>>,
     <<"U+01A3", <<"U+01A2">>>>, <<"U+01A5", <<"U+01A4">>>>,
     <<"U+01A8", <<"U+01A7">>>>, <<"U+01AD", <<"U+01AC">>>>,
     <<"U+01B0", <<"U+01AF">>>>, <<"U+01B4", <<"U+01B3">>>>,
     <<"U+01B6", <<"U+01B5">>>>, <<"U+01B9", <<"U+01B8">>>>,
     <<"U+01BD", <<"U+01BC">>>>, <<"U+01BF", <<"U+01F7">>>>,
     <<"U+01C5", <<"U+01C4">>>>, <<"U+01C6", <<"U+01C4">>>>,
     <<"U+01C8", <<"U+01C7">>>>, <<"U+01C9", <<"U+01C7">>>>,
     <<"U+01CB", <<"U+01CA">>>>, <<"U+01CC", <<"U+01CA">>>>,
     <<"U+01CE", <<"U+01CD">>>>, <<"U+01D0", <<"U+01CF">>>>,
     <<"U+01D2", <<"U+01D1">>>>, <<"U+01D4", <<"U+01D3">>>>,
     <<"U+01D6", <<"U+01D5">>>>, <<"U+01D8", <<"U+01D7">>>>,
     <<"U+01DA", <<"U+01D9">>>>, <<"U+01DC", <<"U+01DB">>>>,
     <<"U+01DD", <<"U+018E">>>>, <<"U+01DF", <<"U+01DE">>>>,
     <<"U+01E1", <<"U+01E0">>>>, <<"U+01E3", <<"U+01E2">>>>,
     <<"U+01E5", <<"U+01E4">>>>, <<"U+01E7", <<"U+01E6">>>>,
     <<"U+01E9", <<"U+01E8">>>>, <<"U+01EB", <<"U+01EA">>>>,
     <<"U+01ED", <<"U+01EC">>>>, <<"U+01EF", <<"U+01EE">>>>,
     <<"U+01F0", <<"J", "U+030C">>>>, <<"U+01F2", <<"U+01F1">>>>,
     <<"U+01F3", <<"U+01F1">>>>, <<"U+01F5", <<"U+01F4">>>>,
     <<"U+01F9", <<"U+01F8">>>>, <<"U+01FB", <<"U+01FA">>>>,
     <<"U+01FD", <<"U+01FC">>>>, <<"U+01FF", <<"U+01FE">>>>,
     <<"U+0201", <<"U+0200">>>>, <<"U+0203", <<"U+0202">>>>,
     <<"U+0205", <<"U+0204">>>>, <<"U+0207", <<"U+0206">>>>,
     <<"U+0209", <<"U+0208">>>>, <<"U+020B", <<"U+020A">>>>,
     <<"U+020D", <<"U+020C">>>>, <<"U+020F", <<"U+020E">>>>,
     <<"U+0211", <<"U+0210">>>>, <<"U+0213", <<"U+0212">>>>,
     <<"U+0215", <<"U+0214">>>>, <<"U+0217", <<"U+0216">>>>,
     <<"U+0219", <<"U+0218">>>>, <<"U+021B", <<"U+021A">>>>,
     <<"U+021D", <<"U+021C">>>>, <<"U+021F", <<"U+021E">>>>,
     <<"U+0223", <<"U+0222">>>>, <<"U+0225", <<"U+0224">>>>,
     <<"U+0227", <<"U+0226">>>>, <<"U+0229", <<"U+0228">>>>,
     <<"U+022B", <<"U+022A">>>>, <<"U+022D", <<"U+022C">>>>,
     <<"U+022F", <<"U+022E">>>>, <<"U+0231", <<"U+0230">>>>,
     <<"U+0233", <<"U+0232">>>>, <<"U+023C", <<"U+023B">>>>,
     <<"U+023F", <<"U+2C7E">>>>, <<"U+0240", <<"U+2C7F">>>>,
     <<"U+0242", <<"U+0241">>>>, <<"U+0247", <<"U+0246">>>>,
     <<"U+0249", <<"U+0248">>>>, <<"U+024B", <<"U+024A">>>>,
     <<"U+024D", <<"U+024C">>>>, <<"U+024F", <<"U+024E">>>>,
     <<"U+0250", <<"U+2C6F">>>>, <<"U+0251", <<"U+2C6D">>>>,
     <<"U+0252", <<"U+2C70">>>>, <<"U+0253", <<"U+0181">>>>,
     <<"U+0254", <<"U+0186">>>>, <<"U+0256", <<"U+0189">>>>,
     <<"U+0257", <<"U+018A">>>>, <<"U+0259", <<"U+018F">>>>,
     <<"U+025B", <<"U+0190">>>>, <<"U+025C", <<"U+A7AB">>>>,
     <<"U+0260", <<"U+0193">>>>, <<"U+0261", <<"U+A7AC">>>>,
     <<"U+0263", <<"U+0194">>>>, <<"U+0265", <<"U+A78D">>>>,
     <<"U+0266", <<"U+A7AA">>>>, <<"U+0268", <<"U+0197">>>>,
     <<"U+0269", <<"U+0196">>>>, <<"U+026A", <<"U+A7AE">>>>,
     <<"U+026B", <<"U+2C62">>>>, <<"U+026C", <<"U+A7AD">>>>,
     <<"U+026F", <<"U+019C">>>>, <<"U+0271", <<"U+2C6E">>>>,
     <<"U+0272", <<"U+019D">>>>, <<"U+0275", <<"U+019F">>>>,
     <<"U+027D", <<"U+2C64">>>>, <<"U+0280", <<"U+01A6">>>>,
     <<"U+0282", <<"U+A7C5">>>>, <<"U+0283", <<"U+01A9">>>>,
     <<"U+0287", <<"U+A7B1">>>>, <<"U+0288", <<"U+01AE">>>>,
     <<"U+0289", <<"U+0244">>>>, <<"U+028A", <<"U+01B1">>>>,
     <<"U+028B", <<"U+01B2">>>>, <<"U+028C", <<"U+0245">>>>,
     <<"U+0292", <<"U+01B7">>>>, <<"U+029D", <<"U+A7B2">>>>,
     <<"U+029E", <<"U+A7B0">>>>, <<"U+0345", <<"U+0399">>>>,
     <<"U+0371", <<"U+0370">>>>, <<"U+0373", <<"U+0372">>>>,
     <<"U+0377", <<"U+0376">>>>, <<"U+037B", <<"U+03FD">>>>,
     <<"U+037C", <<"U+03FE">>>>, <<"U+037D", <<"U+03FF">>>>,
     <<"U+0390", <<"U+0399", "U+0308", "U+0301">>>>,
     <<"U+03AC", <<"U+0386">>>>, <<"U+03AD", <<"U+0388">>>>,
     <<"U+03AE", <<"U+0389">>>>, <<"U+03AF", <<"U+038A">>>>,
     <<"U+03B0", <<"U+03A5", "U+0308", "U+0301">>>>,
     <<"U+03B1", <<"U+0391">>>>, <<"U+03B2", <<"U+0392">>>>,
     <<"U+03B3", <<"U+0393">>>>, <<"U+03B4", <<"U+0394">>>>,
     <<"U+03B5", <<"U+0395">>>>, <<"U+03B6", <<"U+0396">>>>,
     <<"U+03B7", <<"U+0397">>>>, <<"U+03B8", <<"U+0398">>>>,
     <<"U+03B9", <<"U+0399">>>>, <<"U+03BA", <<"U+039A">>>>,
     <<"U+03BB", <<"U+039B">>>>, <<"U+03BC", <<"U+039C">>>>,
     <<"U+03BD", <<"U+039D">>>>, <<"U+03BE", <<"U+039E">>>>,
     <<"U+03BF", <<"U+039F">>>>, <<"U+03C0", <<"U+03A0">>>>,
     <<"U+03C1", <<"U+03A1">>>>, <<"U+03C2", <<"U+03A3">>>>,
     <<"U+03C3", <<"U+03A3">>>>, <<"U+03C4", <<"U+03A4">>>>,
     <<"U+03C5", <<"U+03A5">>>>, <<"U+03C6", <<"U+03A6">>>>,
     <<"U+03C7", <<"U+03A7">>>>, <<"U+03C8", <<"U+03A8">>>>,
     <<"U+03C9", <<"U+03A9">>>>, <<"U+03CA", <<"U+03AA">>>>,
     <<"U+03CB", <<"U+03AB">>>>, <<"U+03CC", <<"U+038C">>>>,
     <<"U+03CD", <<"U+038E">>>>, <<"U+03CE", <<"U+038F">>>>,
     <<"U+03D0", <<"U+0392">>>>, <<"U+03D1", <<"U+0398">>>>,
     <<"U+03D5", <<"U+03A6">>>>, <<"U+03D6", <<"U+03A0">>>>,
     <<"U+03D7", <<"U+03CF">>>>, <<"U+03D9", <<"U+03D8">>>>,
     <<"U+03DB", <<"U+03DA">>>>, <<"U+03DD", <<"U+03DC">>>>,
     <<"U+03DF", <<"U+03DE">>>>, <<"U+03E1", <<"U+03E0">>>>,
     <<"U+03E3", <<"U+03E2">>>>, <<"U+03E5", <<"U+03E4">>>>,
     <<"U+03E7", <<"U+03E6">>>>, <<"U+03E9", <<"U+03E8">>>>,
     <<"U+03EB", <<"U+03EA">>>>, <<"U+03ED", <<"U+03EC">>>>,
     <<"U+03EF", <<"U+03EE">>>>, <<"U+03F0", <<"U+039A">>>>,
     <<"U+03F1", <<"U+03A1">>>>, <<"U+03F2", <<"U+03F9">>>>,
     <<"U+03F3", <<"U+037F">>>>, <<"U+03F5", <<"U+0395">>>>,
     <<"U+03F8", <<"U+03F7">>>>, <<"U+03FB", <<"U+03FA">>>>,
     <<"U+0430", <<"U+0410">>>>, <<"U+0431", <<"U+0411">>>>,
     <<"U+0432", <<"U+0412">>>>, <<"U+0433", <<"U+0413">>>>,
     <<"U+0434", <<"U+0414">>>>, <<"U+0435", <<"U+0415">>>>,
     <<"U+0436", <<"U+0416">>>>, <<"U+0437", <<"U+0417">>>>,
     <<"U+0438", <<"U+0418">>>>, <<"U+0439", <<"U+0419">>>>,
     <<"U+043A", <<"U+041A">>>>, <<"U+043B", <<"U+041B">>>>,
     <<"U+043C", <<"U+041C">>>>, <<"U+043D", <<"U+041D">>>>,
     <<"U+043E", <<"U+041E">>>>, <<"U+043F", <<"U+041F">>>>,
     <<"U+0440", <<"U+0420">>>>, <<"U+0441", <<"U+0421">>>>,
     <<"U+0442", <<"U+0422">>>>, <<"U+0443", <<"U+0423">>>>,
     <<"U+0444", <<"U+0424">>>>, <<"U+0445", <<"U+0425">>>>,
     <<"U+0446", <<"U+0426">>>>, <<"U+0447", <<"U+0427">>>>,
     <<"U+0448", <<"U+0428">>>>, <<"U+0449", <<"U+0429">>>>,
     <<"U+044A", <<"U+042A">>>>, <<"U+044B", <<"U+042B">>>>,
     <<"U+044C", <<"U+042C">>>>, <<"U+044D", <<"U+042D">>>>,
     <<"U+044E", <<"U+042E">>>>, <<"U+044F", <<"U+042F">>>>,
     <<"U+0450", <<"U+0400">>>>, <<"U+0451", <<"U+0401">>>>,
     <<"U+0452", <<"U+0402">>>>, <<"U+0453", <<"U+0403">>>>,
     <<"U+0454", <<"U+0404">>>>, <<"U+0455", <<"U+0405">>>>,
     <<"U+0456", <<"U+0406">>>>, <<"U+0457", <<"U+0407">>>>,
     <<"U+0458", <<"U+0408">>>>, <<"U+0459", <<"U+0409">>>>,
     <<"U+045A", <<"U+040A">>>>, <<"U+045B", <<"U+040B">>>>,
     <<"U+045C", <<"U+040C">>>>, <<"U+045D", <<"U+040D">>>>,
     <<"U+045E", <<"U+040E">>>>, <<"U+045F", <<"U+040F">>>>,
     <<"U+0461", <<"U+0460">>>>, <<"U+0463", <<"U+0462">>>>,
     <<"U+0465", <<"U+0464">>>>, <<"U+0467", <<"U+0466">>>>,
     <<"U+0469", <<"U+0468">>>>, <<"U+046B", <<"U+046A">>>>,
     <<"U+046D", <<"U+046C">>>>, <<"U+046F", <<"U+046E">>>>,
     <<"U+0471", <<"U+0470">>>>, <<"U+0473", <<"U+0472">>>>,
     <<"U+0475", <<"U+0474">>>>, <<"U+0477", <<"U+0476">>>>,
     <<"U+0479", <<"U+0478">>>>, <<"U+047B", <<"U+047A">>>>,
     <<"U+047D", <<"U+047C">>>>, <<"U+047F", <<"U+047E">>>>,
     <<"U+0481", <<"U+0480">>>>, <<"U+048B", <<"U+048A">>>>,
     <<"U+048D", <<"U+048C">>>>, <<"U+048F", <<"U+048E">>>>,
     <<"U+0491", <<"U+0490">>>>, <<"U+0493", <<"U+0492">>>>,
     <<"U+0495", <<"U+0494">>>>, <<"U+0497", <<"U+0496">>>>,
     <<"U+0499", <<"U+0498">>>>, <<"U+049B", <<"U+049A">>>>,
     <<"U+049D", <<"U+049C">>>>, <<"U+049F", <<"U+049E">>>>,
     <<"U+04A1", <<"U+04A0">>>>, <<"U+04A3", <<"U+04A2">>>>,
     <<"U+04A5", <<"U+04A4">>>>, <<"U+04A7", <<"U+04A6">>>>,
     <<"U+04A9", <<"U+04A8">>>>, <<"U+04AB", <<"U+04AA">>>>,
     <<"U+04AD", <<"U+04AC">>>>, <<"U+04AF", <<"U+04AE">>>>,
     <<"U+04B1", <<"U+04B0">>>>, <<"U+04B3", <<"U+04B2">>>>,
     <<"U+04B5", <<"U+04B4">>>>, <<"U+04B7", <<"U+04B6">>>>,
     <<"U+04B9", <<"U+04B8">>>>, <<"U+04BB", <<"U+04BA">>>>,
     <<"U+04BD", <<"U+04BC">>>>, <<"U+04BF", <<"U+04BE">>>>,
     <<"U+04C2", <<"U+04C1">>>>, <<"U+04C4", <<"U+04C3">>>>,
     <<"U+04C6", <<"U+04C5">>>>, <<"U+04C8", <<"U+04C7">>>>,
     <<"U+04CA", <<"U+04C9">>>>, <<"U+04CC", <<"U+04CB">>>>,
     <<"U+04CE", <<"U+04CD">>>>, <<"U+04CF", <<"U+04C0">>>>,
     <<"U+04D1", <<"U+04D0">>>>, <<"U+04D3", <<"U+04D2">>>>,
     <<"U+04D5", <<"U+04D4">>>>, <<"U+04D7", <<"U+04D6">>>>,
     <<"U+04D9", <<"U+04D8">>>>, <<"U+04DB", <<"U+04DA">>>>,
     <<"U+04DD", <<"U+04DC">>>>, <<"U+04DF", <<"U+04DE">>>>,
     <<"U+04E1", <<"U+04E0">>>>, <<"U+04E3", <<"U+04E2">>>>,
     <<"U+04E5", <<"U+04E4">>>>, <<"U+04E7", <<"U+04E6">>>>,
     <<"U+04E9", <<"U+04E8">>>>, <<"U+04EB", <<"U+04EA">>>>,
     <<"U+04ED", <<"U+04EC">>>>, <<"U+04EF", <<"U+04EE">>>>,
     <<"U+04F1", <<"U+04F0">>>>, <<"U+04F3", <<"U+04F2">>>>,
     <<"U+04F5", <<"U+04F4">>>>, <<"U+04F7", <<"U+04F6">>>>,
     <<"U+04F9", <<"U+04F8">>>>, <<"U+04FB", <<"U+04FA">>>>,
     <<"U+04FD", <<"U+04FC">>>>, <<"U+04FF", <<"U+04FE">>>>,
     <<"U+0501", <<"U+0500">>>>, <<"U+0503", <<"U+0502">>>>,
     <<"U+0505", <<"U+0504">>>>, <<"U+0507", <<"U+0506">>>>,
     <<"U+0509", <<"U+0508">>>>, <<"U+050B", <<"U+050A">>>>,
     <<"U+050D", <<"U+050C">>>>, <<"U+050F", <<"U+050E">>>>,
     <<"U+0511", <<"U+0510">>>>, <<"U+0513", <<"U+0512">>>>,
     <<"U+0515", <<"U+0514">>>>, <<"U+0517", <<"U+0516">>>>,
     <<"U+0519", <<"U+0518">>>>, <<"U+051B", <<"U+051A">>>>,
     <<"U+051D", <<"U+051C">>>>, <<"U+051F", <<"U+051E">>>>,
     <<"U+0521", <<"U+0520">>>>, <<"U+0523", <<"U+0522">>>>,
     <<"U+0525", <<"U+0524">>>>, <<"U+0527", <<"U+0526">>>>,
     <<"U+0529", <<"U+0528">>>>, <<"U+052B", <<"U+052A">>>>,
     <<"U+052D", <<"U+052C">>>>, <<"U+052F", <<"U+052E">>>>,
     <<"U+0561", <<"U+0531">>>>, <<"U+0562", <<"U+0532">>>>,
     <<"U+0563", <<"U+0533">>>>, <<"U+0564", <<"U+0534">>>>,
     <<"U+0565", <<"U+0535">>>>, <<"U+0566", <<"U+0536">>>>,
     <<"U+0567", <<"U+0537">>>>, <<"U+0568", <<"U+0538">>>>,
     <<"U+0569", <<"U+0539">>>>, <<"U+056A", <<"U+053A">>>>,
     <<"U+056B", <<"U+053B">>>>, <<"U+056C", <<"U+053C">>>>,
     <<"U+056D", <<"U+053D">>>>, <<"U+056E", <<"U+053E">>>>,
     <<"U+056F", <<"U+053F">>>>, <<"U+0570", <<"U+0540">>>>,
     <<"U+0571", <<"U+0541">>>>, <<"U+0572", <<"U+0542">>>>,
     <<"U+0573", <<"U+0543">>>>, <<"U+0574", <<"U+0544">>>>,
     <<"U+0575", <<"U+0545">>>>, <<"U+0576", <<"U+0546">>>>,
     <<"U+0577", <<"U+0547">>>>, <<"U+0578", <<"U+0548">>>>,
     <<"U+0579", <<"U+0549">>>>, <<"U+057A", <<"U+054A">>>>,
     <<"U+057B", <<"U+054B">>>>, <<"U+057C", <<"U+054C">>>>,
     <<"U+057D", <<"U+054D">>>>, <<"U+057E", <<"U+054E">>>>,
     <<"U+057F", <<"U+054F">>>>, <<"U+0580", <<"U+0550">>>>,
     <<"U+0581", <<"U+0551">>>>, <<"U+0582", <<"U+0552">>>>,
     <<"U+0583", <<"U+0553">>>>, <<"U+0584", <<"U+0554">>>>,
     <<"U+0585", <<"U+0555">>>>, <<"U+0586", <<"U+0556">>>>,
     <<"U+0587", <<"U+0535", "U+0552">>>>, <<"U+10D0", <<"U+1C90">>>>,
     <<"U+10D1", <<"U+1C91">>>>, <<"U+10D2", <<"U+1C92">>>>,
     <<"U+10D3", <<"U+1C93">>>>, <<"U+10D4", <<"U+1C94">>>>,
     <<"U+10D5", <<"U+1C95">>>>, <<"U+10D6", <<"U+1C96">>>>,
     <<"U+10D7", <<"U+1C97">>>>, <<"U+10D8", <<"U+1C98">>>>,
     <<"U+10D9", <<"U+1C99">>>>, <<"U+10DA", <<"U+1C9A">>>>,
     <<"U+10DB", <<"U+1C9B">>>>, <<"U+10DC", <<"U+1C9C">>>>,
     <<"U+10DD", <<"U+1C9D">>>>, <<"U+10DE", <<"U+1C9E">>>>,
     <<"U+10DF", <<"U+1C9F">>>>, <<"U+10E0", <<"U+1CA0">>>>,
     <<"U+10E1", <<"U+1CA1">>>>, <<"U+10E2", <<"U+1CA2">>>>,
     <<"U+10E3", <<"U+1CA3">>>>, <<"U+10E4", <<"U+1CA4">>>>,
     <<"U+10E5", <<"U+1CA5">>>>, <<"U+10E6", <<"U+1CA6">>>>,
     <<"U+10E7", <<"U+1CA7">>>>, <<"U+10E8", <<"U+1CA8">>>>,
     <<"U+10E9", <<"U+1CA9">>>>, <<"U+10EA", <<"U+1CAA">>>>,
     <<"U+10EB", <<"U+1CAB">>>>, <<"U+10EC", <<"U+1CAC">>>>,
     <<"U+10ED", <<"U+1CAD">>>>, <<"U+10EE", <<"U+1CAE">>>>,
     <<"U+10EF", <<"U+1CAF">>>>, <<"U+10F0", <<"U+1CB0">>>>,
     <<"U+10F1", <<"U+1CB1">>>>, <<"U+10F2", <<"U+1CB2">>>>,
     <<"U+10F3", <<"U+1CB3">>>>, <<"U+10F4", <<"U+1CB4">>>>,
     <<"U+10F5", <<"U+1CB5">>>>, <<"U+10F6", <<"U+1CB6">>>>,
     <<"U+10F7", <<"U+1CB7">>>>, <<"U+10F8", <<"U+1CB8">>>>,
     <<"U+10F9", <<"U+1CB9">>>>, <<"U+10FA", <<"U+1CBA">>>>,
     <<"U+10FD", <<"U+1CBD">>>>, <<"U+10FE", <<"U+1CBE">>>>,
     <<"U+10FF", <<"U+1CBF">>>>, <<"U+13F8", <<"U+13F0">>>>,
     <<"U+13F9", <<"U+13F1">>>>, <<"U+13FA", <<"U+13F2">>>>,
     <<"U+13FB", <<"U+13F3">>>>, <<"U+13FC", <<"U+13F4">>>>,
     <<"U+13FD", <<"U+13F5">>>>, <<"U+1C80", <<"U+0412">>>>,
     <<"U+1C81", <<"U+0414">>>>, <<"U+1C82", <<"U+041E">>>>,
     <<"U+1C83", <<"U+0421">>>>, <<"U+1C84", <<"U+0422">>>>,
     <<"U+1C85", <<"U+0422">>>>, <<"U+1C86", <<"U+042A">>>>,
     <<"U+1C87", <<"U+0462">>>>, <<"U+1C88", <<"U+A64A">>>>,
     <<"U+1D79", <<"U+A77D">>>>, <<"U+1D7D", <<"U+2C63">>>>,
     <<"U+1D8E", <<"U+A7C6">>>>, <<"U+1E01", <<"U+1E00">>>>,
     <<"U+1E03", <<"U+1E02">>>>, <<"U+1E05", <<"U+1E04">>>>,
     <<"U+1E07", <<"U+1E06">>>>, <<"U+1E09", <<"U+1E08">>>>,
     <<"U+1E0B", <<"U+1E0A">>>>, <<"U+1E0D", <<"U+1E0C">>>>,
     <<"U+1E0F", <<"U+1E0E">>>>, <<"U+1E11", <<"U+1E10">>>>,
     <<"U+1E13", <<"U+1E12">>>>, <<"U+1E15", <<"U+1E14">>>>,
     <<"U+1E17", <<"U+1E16">>>>, <<"U+1E19", <<"U+1E18">>>>,
     <<"U+1E1B", <<"U+1E1A">>>>, <<"U+1E1D", <<"U+1E1C">>>>,
     <<"U+1E1F", <<"U+1E1E">>>>, <<"U+1E21", <<"U+1E20">>>>,
     <<"U+1E23", <<"U+1E22">>>>, <<"U+1E25", <<"U+1E24">>>>,
     <<"U+1E27", <<"U+1E26">>>>, <<"U+1E29", <<"U+1E28">>>>,
     <<"U+1E2B", <<"U+1E2A">>>>, <<"U+1E2D", <<"U+1E2C">>>>,
     <<"U+1E2F", <<"U+1E2E">>>>, <<"U+1E31", <<"U+1E30">>>>,
     <<"U+1E33", <<"U+1E32">>>>, <<"U+1E35", <<"U+1E34">>>>,
     <<"U+1E37", <<"U+1E36">>>>, <<"U+1E39", <<"U+1E38">>>>,
     <<"U+1E3B", <<"U+1E3A">>>>, <<"U+1E3D", <<"U+1E3C">>>>,
     <<"U+1E3F", <<"U+1E3E">>>>, <<"U+1E41", <<"U+1E40">>>>,
     <<"U+1E43", <<"U+1E42">>>>, <<"U+1E45", <<"U+1E44">>>>,
     <<"U+1E47", <<"U+1E46">>>>, <<"U+1E49", <<"U+1E48">>>>,
     <<"U+1E4B", <<"U+1E4A">>>>, <<"U+1E4D", <<"U+1E4C">>>>,
     <<"U+1E4F", <<"U+1E4E">>>>, <<"U+1E51", <<"U+1E50">>>>,
     <<"U+1E53", <<"U+1E52">>>>, <<"U+1E55", <<"U+1E54">>>>,
     <<"U+1E57", <<"U+1E56">>>>, <<"U+1E59", <<"U+1E58">>>>,
     <<"U+1E5B", <<"U+1E5A">>>>, <<"U+1E5D", <<"U+1E5C">>>>,
     <<"U+1E5F", <<"U+1E5E">>>>, <<"U+1E61", <<"U+1E60">>>>,
     <<"U+1E63", <<"U+1E62">>>>, <<"U+1E65", <<"U+1E64">>>>,
     <<"U+1E67", <<"U+1E66">>>>, <<"U+1E69", <<"U+1E68">>>>,
     <<"U+1E6B", <<"U+1E6A">>>>, <<"U+1E6D", <<"U+1E6C">>>>,
     <<"U+1E6F", <<"U+1E6E">>>>, <<"U+1E71", <<"U+1E70">>>>,
     <<"U+1E73", <<"U+1E72">>>>, <<"U+1E75", <<"U+1E74">>>>,
     <<"U+1E77", <<"U+1E76">>>>, <<"U+1E79", <<"U+1E78">>>>,
     <<"U+1E7B", <<"U+1E7A">>>>, <<"U+1E7D", <<"U+1E7C">>>>,
     <<"U+1E7F", <<"U+1E7E">>>>, <<"U+1E81", <<"U+1E80">>>>,
     <<"U+1E83", <<"U+1E82">>>>, <<"U+1E85", <<"U+1E84">>>>,
     <<"U+1E87", <<"U+1E86">>>>, <<"U+1E89", <<"U+1E88">>>>,
     <<"U+1E8B", <<"U+1E8A">>>>, <<"U+1E8D", <<"U+1E8C">>>>,
     <<"U+1E8F", <<"U+1E8E">>>>, <<"U+1E91", <<"U+1E90">>>>,
     <<"U+1E93", <<"U+1E92">>>>, <<"U+1E95", <<"U+1E94">>>>,
     <<"U+1E96", <<"H", "U+0331">>>>, <<"U+1E97", <<"T", "U+0308">>>>,
     <<"U+1E98", <<"W", "U+030A">>>>, <<"U+1E99", <<"Y", "U+030A">>>>,
     <<"U+1E9A", <<"A", "U+02BE">>>>, <<"U+1E9B", <<"U+1E60">>>>,
     <<"U+1EA1", <<"U+1EA0">>>>, <<"U+1EA3", <<"U+1EA2">>>>,
     <<"U+1EA5", <<"U+1EA4">>>>, <<"U+1EA7", <<"U+1EA6">>>>,
     <<"U+1EA9", <<"U+1EA8">>>>, <<"U+1EAB", <<"U+1EAA">>>>,
     <<"U+1EAD", <<"U+1EAC">>>>, <<"U+1EAF", <<"U+1EAE">>>>,
     <<"U+1EB1", <<"U+1EB0">>>>, <<"U+1EB3", <<"U+1EB2">>>>,
     <<"U+1EB5", <<"U+1EB4">>>>, <<"U+1EB7", <<"U+1EB6">>>>,
     <<"U+1EB9", <<"U+1EB8">>>>, <<"U+1EBB", <<"U+1EBA">>>>,
     <<"U+1EBD", <<"U+1EBC">>>>, <<"U+1EBF", <<"U+1EBE">>>>,
     <<"U+1EC1", <<"U+1EC0">>>>, <<"U+1EC3", <<"U+1EC2">>>>,
     <<"U+1EC5", <<"U+1EC4">>>>, <<"U+1EC7", <<"U+1EC6">>>>,
     <<"U+1EC9", <<"U+1EC8">>>>, <<"U+1ECB", <<"U+1ECA">>>>,
     <<"U+1ECD", <<"U+1ECC">>>>, <<"U+1ECF", <<"U+1ECE">>>>,
     <<"U+1ED1", <<"U+1ED0">>>>, <<"U+1ED3", <<"U+1ED2">>>>,
     <<"U+1ED5", <<"U+1ED4">>>>, <<"U+1ED7", <<"U+1ED6">>>>,
     <<"U+1ED9", <<"U+1ED8">>>>, <<"U+1EDB", <<"U+1EDA">>>>,
     <<"U+1EDD", <<"U+1EDC">>>>, <<"U+1EDF", <<"U+1EDE">>>>,
     <<"U+1EE1", <<"U+1EE0">>>>, <<"U+1EE3", <<"U+1EE2">>>>,
     <<"U+1EE5", <<"U+1EE4">>>>, <<"U+1EE7", <<"U+1EE6">>>>,
     <<"U+1EE9", <<"U+1EE8">>>>, <<"U+1EEB", <<"U+1EEA">>>>,
     <<"U+1EED", <<"U+1EEC">>>>, <<"U+1EEF", <<"U+1EEE">>>>,
     <<"U+1EF1", <<"U+1EF0">>>>, <<"U+1EF3", <<"U+1EF2">>>>,
     <<"U+1EF5", <<"U+1EF4">>>>, <<"U+1EF7", <<"U+1EF6">>>>,
     <<"U+1EF9", <<"U+1EF8">>>>, <<"U+1EFB", <<"U+1EFA">>>>,
     <<"U+1EFD", <<"U+1EFC">>>>, <<"U+1EFF", <<"U+1EFE">>>>,
     <<"U+1F00", <<"U+1F08">>>>, <<"U+1F01", <<"U+1F09">>>>,
     <<"U+1F02", <<"U+1F0A">>>>, <<"U+1F03", <<"U+1F0B">>>>,
     <<"U+1F04", <<"U+1F0C">>>>, <<"U+1F05", <<"U+1F0D">>>>,
     <<"U+1F06", <<"U+1F0E">>>>, <<"U+1F07", <<"U+1F0F">>>>,
     <<"U+1F10", <<"U+1F18">>>>, <<"U+1F11", <<"U+1F19">>>>,
     <<"U+1F12", <<"U+1F1A">>>>, <<"U+1F13", <<"U+1F1B">>>>,
     <<"U+1F14", <<"U+1F1C">>>>, <<"U+1F15", <<"U+1F1D">>>>,
     <<"U+1F20", <<"U+1F28">>>>, <<"U+1F21", <<"U+1F29">>>>,
     <<"U+1F22", <<"U+1F2A">>>>, <<"U+1F23", <<"U+1F2B">>>>,
     <<"U+1F24", <<"U+1F2C">>>>, <<"U+1F25", <<"U+1F2D">>>>,
     <<"U+1F26", <<"U+1F2E">>>>, <<"U+1F27", <<"U+1F2F">>>>,
     <<"U+1F30", <<"U+1F38">>>>, <<"U+1F31", <<"U+1F39">>>>,
     <<"U+1F32", <<"U+1F3A">>>>, <<"U+1F33", <<"U+1F3B">>>>,
     <<"U+1F34", <<"U+1F3C">>>>, <<"U+1F35", <<"U+1F3D">>>>,
     <<"U+1F36", <<"U+1F3E">>>>, <<"U+1F37", <<"U+1F3F">>>>,
     <<"U+1F40", <<"U+1F48">>>>, <<"U+1F41", <<"U+1F49">>>>,
     <<"U+1F42", <<"U+1F4A">>>>, <<"U+1F43", <<"U+1F4B">>>>,
     <<"U+1F44", <<"U+1F4C">>>>, <<"U+1F45", <<"U+1F4D">>>>,
     <<"U+1F50", <<"U+03A5", "U+0313">>>>, <<"U+1F51", <<"U+1F59">>>>,
     <<"U+1F52", <<"U+03A5", "U+0313", "U+0300">>>>,
     <<"U+1F53", <<"U+1F5B">>>>,
     <<"U+1F54", <<"U+03A5", "U+0313", "U+0301">>>>,
     <<"U+1F55", <<"U+1F5D">>>>,
     <<"U+1F56", <<"U+03A5", "U+0313", "U+0342">>>>,
     <<"U+1F57", <<"U+1F5F">>>>, <<"U+1F60", <<"U+1F68">>>>,
     <<"U+1F61", <<"U+1F69">>>>, <<"U+1F62", <<"U+1F6A">>>>,
     <<"U+1F63", <<"U+1F6B">>>>, <<"U+1F64", <<"U+1F6C">>>>,
     <<"U+1F65", <<"U+1F6D">>>>, <<"U+1F66", <<"U+1F6E">>>>,
     <<"U+1F67", <<"U+1F6F">>>>, <<"U+1F70", <<"U+1FBA">>>>,
     <<"U+1F71", <<"U+1FBB">>>>, <<"U+1F72", <<"U+1FC8">>>>,
     <<"U+1F73", <<"U+1FC9">>>>, <<"U+1F74", <<"U+1FCA">>>>,
     <<"U+1F75", <<"U+1FCB">>>>, <<"U+1F76", <<"U+1FDA">>>>,
     <<"U+1F77", <<"U+1FDB">>>>, <<"U+1F78", <<"U+1FF8">>>>,
     <<"U+1F79", <<"U+1FF9">>>>, <<"U+1F7A", <<"U+1FEA">>>>,
     <<"U+1F7B", <<"U+1FEB">>>>, <<"U+1F7C", <<"U+1FFA">>>>,
     <<"U+1F7D", <<"U+1FFB">>>>, <<"U+1F80", <<"U+1F08", "U+0399">>>>,
     <<"U+1F81", <<"U+1F09", "U+0399">>>>,
     <<"U+1F82", <<"U+1F0A", "U+0399">>>>,
     <<"U+1F83", <<"U+1F0B", "U+0399">>>>,
     <<"U+1F84", <<"U+1F0C", "U+0399">>>>,
     <<"U+1F85", <<"U+1F0D", "U+0399">>>>,
     <<"U+1F86", <<"U+1F0E", "U+0399">>>>,
     <<"U+1F87", <<"U+1F0F", "U+0399">>>>,
     <<"U+1F88", <<"U+1F08", "U+0399">>>>,
     <<"U+1F89", <<"U+1F09", "U+0399">>>>,
     <<"U+1F8A", <<"U+1F0A", "U+0399">>>>,
     <<"U+1F8B", <<"U+1F0B", "U+0399">>>>,
     <<"U+1F8C", <<"U+1F0C", "U+0399">>>>,
     <<"U+1F8D", <<"U+1F0D", "U+0399">>>>,
     <<"U+1F8E", <<"U+1F0E", "U+0399">>>>,
     <<"U+1F8F", <<"U+1F0F", "U+0399">>>>,
     <<"U+1F90", <<"U+1F28", "U+0399">>>>,
     <<"U+1F91", <<"U+1F29", "U+0399">>>>,
     <<"U+1F92", <<"U+1F2A", "U+0399">>>>,
     <<"U+1F93", <<"U+1F2B", "U+0399">>>>,
     <<"U+1F94", <<"U+1F2C", "U+0399">>>>,
     <<"U+1F95", <<"U+1F2D", "U+0399">>>>,
     <<"U+1F96", <<"U+1F2E", "U+0399">>>>,
     <<"U+1F97", <<"U+1F2F", "U+0399">>>>,
     <<"U+1F98", <<"U+1F28", "U+0399">>>>,
     <<"U+1F99", <<"U+1F29", "U+0399">>>>,
     <<"U+1F9A", <<"U+1F2A", "U+0399">>>>,
     <<"U+1F9B", <<"U+1F2B", "U+0399">>>>,
     <<"U+1F9C", <<"U+1F2C", "U+0399">>>>,
     <<"U+1F9D", <<"U+1F2D", "U+0399">>>>,
     <<"U+1F9E", <<"U+1F2E", "U+0399">>>>,
     <<"U+1F9F", <<"U+1F2F", "U+0399">>>>,
     <<"U+1FA0", <<"U+1F68", "U+0399">>>>,
     <<"U+1FA1", <<"U+1F69", "U+0399">>>>,
     <<"U+1FA2", <<"U+1F6A", "U+0399">>>>,
     <<"U+1FA3", <<"U+1F6B", "U+0399">>>>,
     <<"U+1FA4", <<"U+1F6C", "U+0399">>>>,
     <<"U+1FA5", <<"U+1F6D", "U+0399">>>>,
     <<"U+1FA6", <<"U+1F6E", "U+0399">>>>,
     <<"U+1FA7", <<"U+1F6F", "U+0399">>>>,
     <<"U+1FA8", <<"U+1F68", "U+0399">>>>,
     <<"U+1FA9", <<"U+1F69", "U+0399">>>>,
     <<"U+1FAA", <<"U+1F6A", "U+0399">>>>,
     <<"U+1FAB", <<"U+1F6B", "U+0399">>>>,
     <<"U+1FAC", <<"U+1F6C", "U+0399">>>>,
     <<"U+1FAD", <<"U+1F6D", "U+0399">>>>,
     <<"U+1FAE", <<"U+1F6E", "U+0399">>>>,
     <<"U+1FAF", <<"U+1F6F", "U+0399">>>>, <<"U+1FB0", <<"U+1FB8">>>>,
     <<"U+1FB1", <<"U+1FB9">>>>, <<"U+1FB2", <<"U+1FBA", "U+0399">>>>,
     <<"U+1FB3", <<"U+0391", "U+0399">>>>,
     <<"U+1FB4", <<"U+0386", "U+0399">>>>,
     <<"U+1FB6", <<"U+0391", "U+0342">>>>,
     <<"U+1FB7", <<"U+0391", "U+0342", "U+0399">>>>,
     <<"U+1FBC", <<"U+0391", "U+0399">>>>, <<"U+1FBE", <<"U+0399">>>>,
     <<"U+1FC2", <<"U+1FCA", "U+0399">>>>,
     <<"U+1FC3", <<"U+0397", "U+0399">>>>,
     <<"U+1FC4", <<"U+0389", "U+0399">>>>,
     <<"U+1FC6", <<"U+0397", "U+0342">>>>,
     <<"U+1FC7", <<"U+0397", "U+0342", "U+0399">>>>,
     <<"U+1FCC", <<"U+0397", "U+0399">>>>, <<"U+1FD0", <<"U+1FD8">>>>,
     <<"U+1FD1", <<"U+1FD9">>>>,
     <<"U+1FD2", <<"U+0399", "U+0308", "U+0300">>>>,
     <<"U+1FD3", <<"U+0399", "U+0308", "U+0301">>>>,
     <<"U+1FD6", <<"U+0399", "U+0342">>>>,
     <<"U+1FD7", <<"U+0399", "U+0308", "U+0342">>>>,
     <<"U+1FE0", <<"U+1FE8">>>>, <<"U+1FE1", <<"U+1FE9">>>>,
     <<"U+1FE2", <<"U+03A5", "U+0308", "U+0300">>>>,
     <<"U+1FE3", <<"U+03A5", "U+0308", "U+0301">>>>,
     <<"U+1FE4", <<"U+03A1", "U+0313">>>>, <<"U+1FE5", <<"U+1FEC">>>>,
     <<"U+1FE6", <<"U+03A5", "U+0342">>>>,
     <<"U+1FE7", <<"U+03A5", "U+0308", "U+0342">>>>,
     <<"U+1FF2", <<"U+1FFA", "U+0399">>>>,
     <<"U+1FF3", <<"U+03A9", "U+0399">>>>,
     <<"U+1FF4", <<"U+038F", "U+0399">>>>,
     <<"U+1FF6", <<"U+03A9", "U+0342">>>>,
     <<"U+1FF7", <<"U+03A9", "U+0342", "U+0399">>>>,
     <<"U+1FFC", <<"U+03A9", "U+0399">>>>, <<"U+214E", <<"U+2132">>>>,
     <<"U+2170", <<"U+2160">>>>, <<"U+2171", <<"U+2161">>>>,
     <<"U+2172", <<"U+2162">>>>, <<"U+2173", <<"U+2163">>>>,
     <<"U+2174", <<"U+2164">>>>, <<"U+2175", <<"U+2165">>>>,
     <<"U+2176", <<"U+2166">>>>, <<"U+2177", <<"U+2167">>>>,
     <<"U+2178", <<"U+2168">>>>, <<"U+2179", <<"U+2169">>>>,
     <<"U+217A", <<"U+216A">>>>, <<"U+217B", <<"U+216B">>>>,
     <<"U+217C", <<"U+216C">>>>, <<"U+217D", <<"U+216D">>>>,
     <<"U+217E", <<"U+216E">>>>, <<"U+217F", <<"U+216F">>>>,
     <<"U+2184", <<"U+2183">>>>, <<"U+24D0", <<"U+24B6">>>>,
     <<"U+24D1", <<"U+24B7">>>>, <<"U+24D2", <<"U+24B8">>>>,
     <<"U+24D3", <<"U+24B9">>>>, <<"U+24D4", <<"U+24BA">>>>,
     <<"U+24D5", <<"U+24BB">>>>, <<"U+24D6", <<"U+24BC">>>>,
     <<"U+24D7", <<"U+24BD">>>>, <<"U+24D8", <<"U+24BE">>>>,
     <<"U+24D9", <<"U+24BF">>>>, <<"U+24DA", <<"U+24C0">>>>,
     <<"U+24DB", <<"U+24C1">>>>, <<"U+24DC", <<"U+24C2">>>>,
     <<"U+24DD", <<"U+24C3">>>>, <<"U+24DE", <<"U+24C4">>>>,
     <<"U+24DF", <<"U+24C5">>>>, <<"U+24E0", <<"U+24C6">>>>,
     <<"U+24E1", <<"U+24C7">>>>, <<"U+24E2", <<"U+24C8">>>>,
     <<"U+24E3", <<"U+24C9">>>>, <<"U+24E4", <<"U+24CA">>>>,
     <<"U+24E5", <<"U+24CB">>>>, <<"U+24E6", <<"U+24CC">>>>,
     <<"U+24E7", <<"U+24CD">>>>, <<"U+24E8", <<"U+24CE">>>>,
     <<"U+24E9", <<"U+24CF">>>>, <<"U+2C30", <<"U+2C00">>>>,
     <<"U+2C31", <<"U+2C01">>>>, <<"U+2C32", <<"U+2C02">>>>,
     <<"U+2C33", <<"U+2C03">>>>, <<"U+2C34", <<"U+2C04">>>>,
     <<"U+2C35", <<"U+2C05">>>>, <<"U+2C36", <<"U+2C06">>>>,
     <<"U+2C37", <<"U+2C07">>>>, <<"U+2C38", <<"U+2C08">>>>,
     <<"U+2C39", <<"U+2C09">>>>, <<"U+2C3A", <<"U+2C0A">>>>,
     <<"U+2C3B", <<"U+2C0B">>>>, <<"U+2C3C", <<"U+2C0C">>>>,
     <<"U+2C3D", <<"U+2C0D">>>>, <<"U+2C3E", <<"U+2C0E">>>>,
     <<"U+2C3F", <<"U+2C0F">>>>, <<"U+2C40", <<"U+2C10">>>>,
     <<"U+2C41", <<"U+2C11">>>>, <<"U+2C42", <<"U+2C12">>>>,
     <<"U+2C43", <<"U+2C13">>>>, <<"U+2C44", <<"U+2C14">>>>,
     <<"U+2C45", <<"U+2C15">>>>, <<"U+2C46", <<"U+2C16">>>>,
     <<"U+2C47", <<"U+2C17">>>>, <<"U+2C48", <<"U+2C18">>>>,
     <<"U+2C49", <<"U+2C19">>>>, <<"U+2C4A", <<"U+2C1A">>>>,
     <<"U+2C4B", <<"U+2C1B">>>>, <<"U+2C4C", <<"U+2C1C">>>>,
     <<"U+2C4D", <<"U+2C1D">>>>, <<"U+2C4E", <<"U+2C1E">>>>,
     <<"U+2C4F", <<"U+2C1F">>>>, <<"U+2C50", <<"U+2C20">>>>,
     <<"U+2C51", <<"U+2C21">>>>, <<"U+2C52", <<"U+2C22">>>>,
     <<"U+2C53", <<"U+2C23">>>>, <<"U+2C54", <<"U+2C24">>>>,
     <<"U+2C55", <<"U+2C25">>>>, <<"U+2C56", <<"U+2C26">>>>,
     <<"U+2C57", <<"U+2C27">>>>, <<"U+2C58", <<"U+2C28">>>>,
     <<"U+2C59", <<"U+2C29">>>>, <<"U+2C5A", <<"U+2C2A">>>>,
     <<"U+2C5B", <<"U+2C2B">>>>, <<"U+2C5C", <<"U+2C2C">>>>,
     <<"U+2C5D", <<"U+2C2D">>>>, <<"U+2C5E", <<"U+2C2E">>>>,
     <<"U+2C5F", <<"U+2C2F">>>>, <<"U+2C61", <<"U+2C60">>>>,
     <<"U+2C65", <<"U+023A">>>>, <<"U+2C66", <<"U+023E">>>>,
     <<"U+2C68", <<"U+2C67">>>>, <<"U+2C6A", <<"U+2C69">>>>,
     <<"U+2C6C", <<"U+2C6B">>>>, <<"U+2C73", <<"U+2C72">>>>,
     <<"U+2C76", <<"U+2C75">>>>, <<"U+2C81", <<"U+2C80">>>>,
     <<"U+2C83", <<"U+2C82">>>>, <<"U+2C85", <<"U+2C84">>>>,
     <<"U+2C87", <<"U+2C86">>>>, <<"U+2C89", <<"U+2C88">>>>,
     <<"U+2C8B", <<"U+2C8A">>>>, <<"U+2C8D", <<"U+2C8C">>>>,
     <<"U+2C8F", <<"U+2C8E">>>>, <<"U+2C91", <<"U+2C90">>>>,
     <<"U+2C93", <<"U+2C92">>>>, <<"U+2C95", <<"U+2C94">>>>,
     <<"U+2C97", <<"U+2C96">>>>, <<"U+2C99", <<"U+2C98">>>>,
     <<"U+2C9B", <<"U+2C9A">>>>, <<"U+2C9D", <<"U+2C9C">>>>,
     <<"U+2C9F", <<"U+2C9E">>>>, <<"U+2CA1", <<"U+2CA0">>>>,
     <<"U+2CA3", <<"U+2CA2">>>>, <<"U+2CA5", <<"U+2CA4">>>>,
     <<"U+2CA7", <<"U+2CA6">>>>, <<"U+2CA9", <<"U+2CA8">>>>,
     <<"U+2CAB", <<"U+2CAA">>>>, <<"U+2CAD", <<"U+2CAC">>>>,
     <<"U+2CAF", <<"U+2CAE">>>>, <<"U+2CB1", <<"U+2CB0">>>>,
     <<"U+2CB3", <<"U+2CB2">>>>, <<"U+2CB5", <<"U+2CB4">>>>,
     <<"U+2CB7", <<"U+2CB6">>>>, <<"U+2CB9", <<"U+2CB8">>>>,
     <<"U+2CBB", <<"U+2CBA">>>>, <<"U+2CBD", <<"U+2CBC">>>>,
     <<"U+2CBF", <<"U+2CBE">>>>, <<"U+2CC1", <<"U+2CC0">>>>,
     <<"U+2CC3", <<"U+2CC2">>>>, <<"U+2CC5", <<"U+2CC4">>>>,
     <<"U+2CC7", <<"U+2CC6">>>>, <<"U+2CC9", <<"U+2CC8">>>>,
     <<"U+2CCB", <<"U+2CCA">>>>, <<"U+2CCD", <<"U+2CCC">>>>,
     <<"U+2CCF", <<"U+2CCE">>>>, <<"U+2CD1", <<"U+2CD0">>>>,
     <<"U+2CD3", <<"U+2CD2">>>>, <<"U+2CD5", <<"U+2CD4">>>>,
     <<"U+2CD7", <<"U+2CD6">>>>, <<"U+2CD9", <<"U+2CD8">>>>,
     <<"U+2CDB", <<"U+2CDA">>>>, <<"U+2CDD", <<"U+2CDC">>>>,
     <<"U+2CDF", <<"U+2CDE">>>>, <<"U+2CE1", <<"U+2CE0">>>>,
     <<"U+2CE3", <<"U+2CE2">>>>, <<"U+2CEC", <<"U+2CEB">>>>,
     <<"U+2CEE", <<"U+2CED">>>>, <<"U+2CF3", <<"U+2CF2">>>>,
     <<"U+2D00", <<"U+10A0">>>>, <<"U+2D01", <<"U+10A1">>>>,
     <<"U+2D02", <<"U+10A2">>>>, <<"U+2D03", <<"U+10A3">>>>,
     <<"U+2D04", <<"U+10A4">>>>, <<"U+2D05", <<"U+10A5">>>>,
     <<"U+2D06", <<"U+10A6">>>>, <<"U+2D07", <<"U+10A7">>>>,
     <<"U+2D08", <<"U+10A8">>>>, <<"U+2D09", <<"U+10A9">>>>,
     <<"U+2D0A", <<"U+10AA">>>>, <<"U+2D0B", <<"U+10AB">>>>,
     <<"U+2D0C", <<"U+10AC">>>>, <<"U+2D0D", <<"U+10AD">>>>,
     <<"U+2D0E", <<"U+10AE">>>>, <<"U+2D0F", <<"U+10AF">>>>,
     <<"U+2D10", <<"U+10B0">>>>, <<"U+2D11", <<"U+10B1">>>>,
     <<"U+2D12", <<"U+10B2">>>>, <<"U+2D13", <<"U+10B3">>>>,
     <<"U+2D14", <<"U+10B4">>>>, <<"U+2D15", <<"U+10B5">>>>,
     <<"U+2D16", <<"U+10B6">>>>, <<"U+2D17", <<"U+10B7">>>>,
     <<"U+2D18", <<"U+10B8">>>>, <<"U+2D19", <<"U+10B9">>>>,
     <<"U+2D1A", <<"U+10BA">>>>, <<"U+2D1B", <<"U+10BB">>>>,
     <<"U+2D1C", <<"U+10BC">>>>, <<"U+2D1D", <<"U+10BD">>>>,
     <<"U+2D1E", <<"U+10BE">>>>, <<"U+2D1F", <<"U+10BF">>>>,
     <<"U+2D20", <<"U+10C0">>>>, <<"U+2D21", <<"U+10C1">>>>,
     <<"U+2D22", <<"U+10C2">>>>, <<"U+2D23", <<"U+10C3">>>>,
     <<"U+2D24", <<"U+10C4">>>>, <<"U+2D25", <<"U+10C5">>>>,
     <<"U+2D27", <<"U+10C7">>>>, <<"U+2D2D", <<"U+10CD">>>>,
     <<"U+A641", <<"U+A640">>>>, <<"U+A643", <<"U+A642">>>>,
     <<"U+A645", <<"U+A644">>>>, <<"U+A647", <<"U+A646">>>>,
     <<"U+A649", <<"U+A648">>>>, <<"U+A64B", <<"U+A64A">>>>,
     <<"U+A64D", <<"U+A64C">>>>, <<"U+A64F", <<"U+A64E">>>>,
     <<"U+A651", <<"U+A650">>>>, <<"U+A653", <<"U+A652">>>>,
     <<"U+A655", <<"U+A654">>>>, <<"U+A657", <<"U+A656">>>>,
     <<"U+A659", <<"U+A658">>>>, <<"U+A65B", <<"U+A65A">>>>,
     <<"U+A65D", <<"U+A65C">>>>, <<"U+A65F", <<"U+A65E">>>>,
     <<"U+A661", <<"U+A660">>>>, <<"U+A663", <<"U+A662">>>>,
     <<"U+A665", <<"U+A664">>>>, <<"U+A667", <<"U+A666">>>>,
     <<"U+A669", <<"U+A668">>>>, <<"U+A66B", <<"U+A66A">>>>,
     <<"U+A66D", <<"U+A66C">>>>, <<"U+A681", <<"U+A680">>>>,
     <<"U+A683", <<"U+A682">>>>, <<"U+A685", <<"U+A684">>>>,
     <<"U+A687", <<"U+A686">>>>, <<"U+A689", <<"U+A688">>>>,
     <<"U+A68B", <<"U+A68A">>>>, <<"U+A68D", <<"U+A68C">>>>,
     <<"U+A68F", <<"U+A68E">>>>, <<"U+A691", <<"U+A690">>>>,
     <<"U+A693", <<"U+A692">>>>, <<"U+A695", <<"U+A694">>>>,
     <<"U+A697", <<"U+A696">>>>, <<"U+A699", <<"U+A698">>>>,
     <<"U+A69B", <<"U+A69A">>>>, <<"U+A723", <<"U+A722">>>>,
     <<"U+A725", <<"U+A724">>>>, <<"U+A727", <<"U+A726">>>>,
     <<"U+A729", <<"U+A728">>>>, <<"U+A72B", <<"U+A72A">>>>,
     <<"U+A72D", <<"U+A72C">>>>, <<"U+A72F", <<"U+A72E">>>>,
     <<"U+A733", <<"U+A732">>>>, <<"U+A735", <<"U+A734">>>>,
     <<"U+A737", <<"U+A736">>>>, <<"U+A739", <<"U+A738">>>>,
     <<"U+A73B", <<"U+A73A">>>>, <<"U+A73D", <<"U+A73C">>>>,
     <<"U+A73F", <<"U+A73E">>>>, <<"U+A741", <<"U+A740">>>>,
     <<"U+A743", <<"U+A742">>>>, <<"U+A745", <<"U+A744">>>>,
     <<"U+A747", <<"U+A746">>>>, <<"U+A749", <<"U+A748">>>>,
     <<"U+A74B", <<"U+A74A">>>>, <<"U+A74D", <<"U+A74C">>>>,
     <<"U+A74F", <<"U+A74E">>>>, <<"U+A751", <<"U+A750">>>>,
     <<"U+A753", <<"U+A752">>>>, <<"U+A755", <<"U+A754">>>>,
     <<"U+A757", <<"U+A756">>>>, <<"U+A759", <<"U+A758">>>>,
     <<"U+A75B", <<"U+A75A">>>>, <<"U+A75D", <<"U+A75C">>>>,
     <<"U+A75F", <<"U+A75E">>>>, <<"U+A761", <<"U+A760">>>>,
     <<"U+A763", <<"U+A762">>>>, <<"U+A765", <<"U+A764">>>>,
     <<"U+A767", <<"U+A766">>>>, <<"U+A769", <<"U+A768">>>>,
     <<"U+A76B", <<"U+A76A">>>>, <<"U+A76D", <<"U+A76C">>>>,
     <<"U+A76F", <<"U+A76E">>>>, <<"U+A77A", <<"U+A779">>>>,
     <<"U+A77C", <<"U+A77B">>>>, <<"U+A77F", <<"U+A77E">>>>,
     <<"U+A781", <<"U+A780">>>>, <<"U+A783", <<"U+A782">>>>,
     <<"U+A785", <<"U+A784">>>>, <<"U+A787", <<"U+A786">>>>,
     <<"U+A78C", <<"U+A78B">>>>, <<"U+A791", <<"U+A790">>>>,
     <<"U+A793", <<"U+A792">>>>, <<"U+A794", <<"U+A7C4">>>>,
     <<"U+A797", <<"U+A796">>>>, <<"U+A799", <<"U+A798">>>>,
     <<"U+A79B", <<"U+A79A">>>>, <<"U+A79D", <<"U+A79C">>>>,
     <<"U+A79F", <<"U+A79E">>>>, <<"U+A7A1", <<"U+A7A0">>>>,
     <<"U+A7A3", <<"U+A7A2">>>>, <<"U+A7A5", <<"U+A7A4">>>>,
     <<"U+A7A7", <<"U+A7A6">>>>, <<"U+A7A9", <<"U+A7A8">>>>,
     <<"U+A7B5", <<"U+A7B4">>>>, <<"U+A7B7", <<"U+A7B6">>>>,
     <<"U+A7B9", <<"U+A7B8">>>>, <<"U+A7BB", <<"U+A7BA">>>>,
     <<"U+A7BD", <<"U+A7BC">>>>, <<"U+A7BF", <<"U+A7BE">>>>,
     <<"U+A7C1", <<"U+A7C0">>>>, <<"U+A7C3", <<"U+A7C2">>>>,
     <<"U+A7C8", <<"U+A7C7">>>>, <<"U+A7CA", <<"U+A7C9">>>>,
     <<"U+A7D1", <<"U+A7D0">>>>, <<"U+A7D7", <<"U+A7D6">>>>,
     <<"U+A7D9", <<"U+A7D8">>>>, <<"U+A7F6", <<"U+A7F5">>>>,
     <<"U+AB53", <<"U+A7B3">>>>, <<"U+AB70", <<"U+13A0">>>>,
     <<"U+AB71", <<"U+13A1">>>>, <<"U+AB72", <<"U+13A2">>>>,
     <<"U+AB73", <<"U+13A3">>>>, <<"U+AB74", <<"U+13A4">>>>,
     <<"U+AB75", <<"U+13A5">>>>, <<"U+AB76", <<"U+13A6">>>>,
     <<"U+AB77", <<"U+13A7">>>>, <<"U+AB78", <<"U+13A8">>>>,
     <<"U+AB79", <<"U+13A9">>>>, <<"U+AB7A", <<"U+13AA">>>>,
     <<"U+AB7B", <<"U+13AB">>>>, <<"U+AB7C", <<"U+13AC">>>>,
     <<"U+AB7D", <<"U+13AD">>>>, <<"U+AB7E", <<"U+13AE">>>>,
     <<"U+AB7F", <<"U+13AF">>>>, <<"U+AB80", <<"U+13B0">>>>,
     <<"U+AB81", <<"U+13B1">>>>, <<"U+AB82", <<"U+13B2">>>>,
     <<"U+AB83", <<"U+13B3">>>>, <<"U+AB84", <<"U+13B4">>>>,
     <<"U+AB85", <<"U+13B5">>>>, <<"U+AB86", <<"U+13B6">>>>,
     <<"U+AB87", <<"U+13B7">>>>, <<"U+AB88", <<"U+13B8">>>>,
     <<"U+AB89", <<"U+13B9">>>>, <<"U+AB8A", <<"U+13BA">>>>,
     <<"U+AB8B", <<"U+13BB">>>>, <<"U+AB8C", <<"U+13BC">>>>,
     <<"U+AB8D", <<"U+13BD">>>>, <<"U+AB8E", <<"U+13BE">>>>,
     <<"U+AB8F", <<"U+13BF">>>>, <<"U+AB90", <<"U+13C0">>>>,
     <<"U+AB91", <<"U+13C1">>>>, <<"U+AB92", <<"U+13C2">>>>,
     <<"U+AB93", <<"U+13C3">>>>, <<"U+AB94", <<"U+13C4">>>>,
     <<"U+AB95", <<"U+13C5">>>>, <<"U+AB96", <<"U+13C6">>>>,
     <<"U+AB97", <<"U+13C7">>>>, <<"U+AB98", <<"U+13C8">>>>,
     <<"U+AB99", <<"U+13C9">>>>, <<"U+AB9A", <<"U+13CA">>>>,
     <<"U+AB9B", <<"U+13CB">>>>, <<"U+AB9C", <<"U+13CC">>>>,
     <<"U+AB9D", <<"U+13CD">>>>, <<"U+AB9E", <<"U+13CE">>>>,
     <<"U+AB9F", <<"U+13CF">>>>, <<"U+ABA0", <<"U+13D0">>>>,
     <<"U+ABA1", <<"U+13D1">>>>, <<"U+ABA2", <<"U+13D2">>>>,
     <<"U+ABA3", <<"U+13D3">>>>, <<"U+ABA4", <<"U+13D4">>>>,
     <<"U+ABA5", <<"U+13D5">>>>, <<"U+ABA6", <<"U+13D6">>>>,
     <<"U+ABA7", <<"U+13D7">>>>, <<"U+ABA8", <<"U+13D8">>>>,
     <<"U+ABA9", <<"U+13D9">>>>, <<"U+ABAA", <<"U+13DA">>>>,
     <<"U+ABAB", <<"U+13DB">>>>, <<"U+ABAC", <<"U+13DC">>>>,
     <<"U+ABAD", <<"U+13DD">>>>, <<"U+ABAE", <<"U+13DE">>>>,
     <<"U+ABAF", <<"U+13DF">>>>, <<"U+ABB0", <<"U+13E0">>>>,
     <<"U+ABB1", <<"U+13E1">>>>, <<"U+ABB2", <<"U+13E2">>>>,
     <<"U+ABB3", <<"U+13E3">>>>, <<"U+ABB4", <<"U+13E4">>>>,
     <<"U+ABB5", <<"U+13E5">>>>, <<"U+ABB6", <<"U+13E6">>>>,
     <<"U+ABB7", <<"U+13E7">>>>, <<"U+ABB8", <<"U+13E8">>>>,
     <<"U+ABB9", <<"U+13E9">>>>, <<"U+ABBA", <<"U+13EA">>>>,
     <<"U+ABBB", <<"U+13EB">>>>, <<"U+ABBC", <<"U+13EC">>>>,
     <<"U+ABBD", <<"U+13ED">>>>, <<"U+ABBE", <<"U+13EE">>>>,
     <<"U+ABBF", <<"U+13EF">>>>, <<"U+FB00", <<"F", "F">>>>,
     <<"U+FB01", <<"F", "I">>>>, <<"U+FB02", <<"F", "L">>>>,
     <<"U+FB03", <<"F", "F", "I">>>>, <<"U+FB04", <<"F", "F", "L">>>>,
     <<"U+FB05", <<"S", "T">>>>, <<"U+FB06", <<"S", "T">>>>,
     <<"U+FB13", <<"U+0544", "U+0546">>>>,
     <<"U+FB14", <<"U+0544", "U+0535">>>>,
     <<"U+FB15", <<"U+0544", "U+053B">>>>,
     <<"U+FB16", <<"U+054E", "U+0546">>>>,
     <<"U+FB17", <<"U+0544", "U+053D">>>>, <<"U+FF41", <<"U+FF21">>>>,
     <<"U+FF42", <<"U+FF22">>>>, <<"U+FF43", <<"U+FF23">>>>,
     <<"U+FF44", <<"U+FF24">>>>, <<"U+FF45", <<"U+FF25">>>>,
     <<"U+FF46", <<"U+FF26">>>>, <<"U+FF47", <<"U+FF27">>>>,
     <<"U+FF48", <<"U+FF28">>>>, <<"U+FF49", <<"U+FF29">>>>,
     <<"U+FF4A", <<"U+FF2A">>>>, <<"U+FF4B", <<"U+FF2B">>>>,
     <<"U+FF4C", <<"U+FF2C">>>>, <<"U+FF4D", <<"U+FF2D">>>>,
     <<"U+FF4E", <<"U+FF2E">>>>, <<"U+FF4F", <<"U+FF2F">>>>,
     <<"U+FF50", <<"U+FF30">>>>, <<"U+FF51", <<"U+FF31">>>>,
     <<"U+FF52", <<"U+FF32">>>>, <<"U+FF53", <<"U+FF33">>>>,
     <<"U+FF54", <<"U+FF34">>>>, <<"U+FF55", <<"U+FF35">>>>,
     <<"U+FF56", <<"U+FF36">>>>, <<"U+FF57", <<"U+FF37">>>>,
     <<"U+FF58", <<"U+FF38">>>>, <<"U+FF59", <<"U+FF39">>>>,
     <<"U+FF5A", <<"U+FF3A">>>>, <<"U+10428", <<"U+10400">>>>,
     <<"U+10429", <<"U+10401">>>>, <<"U+1042A", <<"U+10402">>>>,
     <<"U+1042B", <<"U+10403">>>>, <<"U+1042C", <<"U+10404">>>>,
     <<"U+1042D", <<"U+10405">>>>, <<"U+1042E", <<"U+10406">>>>,
     <<"U+1042F", <<"U+10407">>>>, <<"U+10430", <<"U+10408">>>>,
     <<"U+10431", <<"U+10409">>>>, <<"U+10432", <<"U+1040A">>>>,
     <<"U+10433", <<"U+1040B">>>>, <<"U+10434", <<"U+1040C">>>>,
     <<"U+10435", <<"U+1040D">>>>, <<"U+10436", <<"U+1040E">>>>,
     <<"U+10437", <<"U+1040F">>>>, <<"U+10438", <<"U+10410">>>>,
     <<"U+10439", <<"U+10411">>>>, <<"U+1043A", <<"U+10412">>>>,
     <<"U+1043B", <<"U+10413">>>>, <<"U+1043C", <<"U+10414">>>>,
     <<"U+1043D", <<"U+10415">>>>, <<"U+1043E", <<"U+10416">>>>,
     <<"U+1043F", <<"U+10417">>>>, <<"U+10440", <<"U+10418">>>>,
     <<"U+10441", <<"U+10419">>>>, <<"U+10442", <<"U+1041A">>>>,
     <<"U+10443", <<"U+1041B">>>>, <<"U+10444", <<"U+1041C">>>>,
     <<"U+10445", <<"U+1041D">>>>, <<"U+10446", <<"U+1041E">>>>,
     <<"U+10447", <<"U+1041F">>>>, <<"U+10448", <<"U+10420">>>>,
     <<"U+10449", <<"U+10421">>>>, <<"U+1044A", <<"U+10422">>>>,
     <<"U+1044B", <<"U+10423">>>>, <<"U+1044C", <<"U+10424">>>>,
     <<"U+1044D", <<"U+10425">>>>, <<"U+1044E", <<"U+10426">>>>,
     <<"U+1044F", <<"U+10427">>>>, <<"U+104D8", <<"U+104B0">>>>,
     <<"U+104D9", <<"U+104B1">>>>, <<"U+104DA", <<"U+104B2">>>>,
     <<"U+104DB", <<"U+104B3">>>>, <<"U+104DC", <<"U+104B4">>>>,
     <<"U+104DD", <<"U+104B5">>>>, <<"U+104DE", <<"U+104B6">>>>,
     <<"U+104DF", <<"U+104B7">>>>, <<"U+104E0", <<"U+104B8">>>>,
     <<"U+104E1", <<"U+104B9">>>>, <<"U+104E2", <<"U+104BA">>>>,
     <<"U+104E3", <<"U+104BB">>>>, <<"U+104E4", <<"U+104BC">>>>,
     <<"U+104E5", <<"U+104BD">>>>, <<"U+104E6", <<"U+104BE">>>>,
     <<"U+104E7", <<"U+104BF">>>>, <<"U+104E8", <<"U+104C0">>>>,
     <<"U+104E9", <<"U+104C1">>>>, <<"U+104EA", <<"U+104C2">>>>,
     <<"U+104EB", <<"U+104C3">>>>, <<"U+104EC", <<"U+104C4">>>>,
     <<"U+104ED", <<"U+104C5">>>>, <<"U+104EE", <<"U+104C6">>>>,
     <<"U+104EF", <<"U+104C7">>>>, <<"U+104F0", <<"U+104C8">>>>,
     <<"U+104F1", <<"U+104C9">>>>, <<"U+104F2", <<"U+104CA">>>>,
     <<"U+104F3", <<"U+104CB">>>>, <<"U+104F4", <<"U+104CC">>>>,
     <<"U+104F5", <<"U+104CD">>>>, <<"U+104F6", <<"U+104CE">>>>,
     <<"U+104F7", <<"U+104CF">>>>, <<"U+104F8", <<"U+104D0">>>>,
     <<"U+104F9", <<"U+104D1">>>>, <<"U+104FA", <<"U+104D2">>>>,
     <<"U+104FB", <<"U+104D3">>>>, <<"U+10597", <<"U+10570">>>>,
     <<"U+10598", <<"U+10571">>>>, <<"U+10599", <<"U+10572">>>>,
     <<"U+1059A", <<"U+10573">>>>, <<"U+1059B", <<"U+10574">>>>,
     <<"U+1059C", <<"U+10575">>>>, <<"U+1059D", <<"U+10576">>>>,
     <<"U+1059E", <<"U+10577">>>>, <<"U+1059F", <<"U+10578">>>>,
     <<"U+105A0", <<"U+10579">>>>, <<"U+105A1", <<"U+1057A">>>>,
     <<"U+105A3", <<"U+1057C">>>>, <<"U+105A4", <<"U+1057D">>>>,
     <<"U+105A5", <<"U+1057E">>>>, <<"U+105A6", <<"U+1057F">>>>,
     <<"U+105A7", <<"U+10580">>>>, <<"U+105A8", <<"U+10581">>>>,
     <<"U+105A9", <<"U+10582">>>>, <<"U+105AA", <<"U+10583">>>>,
     <<"U+105AB", <<"U+10584">>>>, <<"U+105AC", <<"U+10585">>>>,
     <<"U+105AD", <<"U+10586">>>>, <<"U+105AE", <<"U+10587">>>>,
     <<"U+105AF", <<"U+10588">>>>, <<"U+105B0", <<"U+10589">>>>,
     <<"U+105B1", <<"U+1058A">>>>, <<"U+105B3", <<"U+1058C">>>>,
     <<"U+105B4", <<"U+1058D">>>>, <<"U+105B5", <<"U+1058E">>>>,
     <<"U+105B6", <<"U+1058F">>>>, <<"U+105B7", <<"U+10590">>>>,
     <<"U+105B8", <<"U+10591">>>>, <<"U+105B9", <<"U+10592">>>>,
     <<"U+105BB", <<"U+10594">>>>, <<"U+105BC", <<"U+10595">>>>,
     <<"U+10CC0", <<"U+10C80">>>>, <<"U+10CC1", <<"U+10C81">>>>,
     <<"U+10CC2", <<"U+10C82">>>>, <<"U+10CC3", <<"U+10C83">>>>,
     <<"U+10CC4", <<"U+10C84">>>>, <<"U+10CC5", <<"U+10C85">>>>,
     <<"U+10CC6", <<"U+10C86">>>>, <<"U+10CC7", <<"U+10C87">>>>,
     <<"U+10CC8", <<"U+10C88">>>>, <<"U+10CC9", <<"U+10C89">>>>,
     <<"U+10CCA", <<"U+10C8A">>>>, <<"U+10CCB", <<"U+10C8B">>>>,
     <<"U+10CCC", <<"U+10C8C">>>>, <<"U+10CCD", <<"U+10C8D">>>>,
     <<"U+10CCE", <<"U+10C8E">>>>, <<"U+10CCF", <<"U+10C8F">>>>,
     <<"U+10CD0", <<"U+10C90">>>>, <<"U+10CD1", <<"U+10C91">>>>,
     <<"U+10CD2", <<"U+10C92">>>>, <<"U+10CD3", <<"U+10C93">>>>,
     <<"U+10CD4", <<"U+10C94">>>>, <<"U+10CD5", <<"U+10C95">>>>,
     <<"U+10CD6", <<"U+10C96">>>>, <<"U+10CD7", <<"U+10C97">>>>,
     <<"U+10CD8", <<"U+10C98">>>>, <<"U+10CD9", <<"U+10C99">>>>,
     <<"U+10CDA", <<"U+10C9A">>>>, <<"U+10CDB", <<"U+10C9B">>>>,
     <<"U+10CDC", <<"U+10C9C">>>>, <<"U+10CDD", <<"U+10C9D">>>>,
     <<"U+10CDE", <<"U+10C9E">>>>, <<"U+10CDF", <<"U+10C9F">>>>,
     <<"U+10CE0", <<"U+10CA0">>>>, <<"U+10CE1", <<"U+10CA1">>>>,
     <<"U+10CE2", <<"U+10CA2">>>>, <<"U+10CE3", <<"U+10CA3">>>>,
     <<"U+10CE4", <<"U+10CA4">>>>, <<"U+10CE5", <<"U+10CA5">>>>,
     <<"U+10CE6", <<"U+10CA6">>>>, <<"U+10CE7", <<"U+10CA7">>>>,
     <<"U+10CE8", <<"U+10CA8">>>>, <<"U+10CE9", <<"U+10CA9">>>>,
     <<"U+10CEA", <<"U+10CAA">>>>, <<"U+10CEB", <<"U+10CAB">>>>,
     <<"U+10CEC", <<"U+10CAC">>>>, <<"U+10CED", <<"U+10CAD">>>>,
     <<"U+10CEE", <<"U+10CAE">>>>, <<"U+10CEF", <<"U+10CAF">>>>,
     <<"U+10CF0", <<"U+10CB0">>>>, <<"U+10CF1", <<"U+10CB1">>>>,
     <<"U+10CF2", <<"U+10CB2">>>>, <<"U+118C0", <<"U+118A0">>>>,
     <<"U+118C1", <<"U+118A1">>>>, <<"U+118C2", <<"U+118A2">>>>,
     <<"U+118C3", <<"U+118A3">>>>, <<"U+118C4", <<"U+118A4">>>>,
     <<"U+118C5", <<"U+118A5">>>>, <<"U+118C6", <<"U+118A6">>>>,
     <<"U+118C7", <<"U+118A7">>>>, <<"U+118C8", <<"U+118A8">>>>,
     <<"U+118C9", <<"U+118A9">>>>, <<"U+118CA", <<"U+118AA">>>>,
     <<"U+118CB", <<"U+118AB">>>>, <<"U+118CC", <<"U+118AC">>>>,
     <<"U+118CD", <<"U+118AD">>>>, <<"U+118CE", <<"U+118AE">>>>,
     <<"U+118CF", <<"U+118AF">>>>, <<"U+118D0", <<"U+118B0">>>>,
     <<"U+118D1", <<"U+118B1">>>>, <<"U+118D2", <<"U+118B2">>>>,
     <<"U+118D3", <<"U+118B3">>>>, <<"U+118D4", <<"U+118B4">>>>,
     <<"U+118D5", <<"U+118B5">>>>, <<"U+118D6", <<"U+118B6">>>>,
     <<"U+118D7", <<"U+118B7">>>>, <<"U+118D8", <<"U+118B8">>>>,
     <<"U+118D9", <<"U+118B9">>>>, <<"U+118DA", <<"U+118BA">>>>,
     <<"U+118DB", <<"U+118BB">>>>, <<"U+118DC", <<"U+118BC">>>>,
     <<"U+118DD", <<"U+118BD">>>>, <<"U+118DE", <<"U+118BE">>>>,
     <<"U+118DF", <<"U+118BF">>>>, <<"U+16E60", <<"U+16E40">>>>,
     <<"U+16E61", <<"U+16E41">>>>, <<"U+16E62", <<"U+16E42">>>>,
     <<"U+16E63", <<"U+16E43">>>>, <<"U+16E64", <<"U+16E44">>>>,
     <<"U+16E65", <<"U+16E45">>>>, <<"U+16E66", <<"U+16E46">>>>,
     <<"U+16E67", <<"U+16E47">>>>, <<"U+16E68", <<"U+16E48">>>>,
     <<"U+16E69", <<"U+16E49">>>>, <<"U+16E6A", <<"U+16E4A">>>>,
     <<"U+16E6B", <<"U+16E4B">>>>, <<"U+16E6C", <<"U+16E4C">>>>,
     <<"U+16E6D", <<"U+16E4D">>>>, <<"U+16E6E", <<"U+16E4E">>>>,
     <<"U+16E6F", <<"U+16E4F">>>>, <<"U+16E70", <<"U+16E50">>>>,
     <<"U+16E71", <<"U+16E51">>>>, <<"U+16E72", <<"U+16E52">>>>,
     <<"U+16E73", <<"U+16E53">>>>, <<"U+16E74", <<"U+16E54">>>>,
     <<"U+16E75", <<"U+16E55">>>>, <<"U+16E76", <<"U+16E56">>>>,
     <<"U+16E77", <<"U+16E57">>>>, <<"U+16E78", <<"U+16E58">>>>,
     <<"U+16E79", <<"U+16E59">>>>, <<"U+16E7A", <<"U+16E5A">>>>,
     <<"U+16E7B", <<"U+16E5B">>>>, <<"U+16E7C", <<"U+16E5C">>>>,
     <<"U+16E7D", <<"U+16E5D">>>>, <<"U+16E7E", <<"U+16E5E">>>>,
     <<"U+16E7F", <<"U+16E5F">>>>, <<"U+1E922", <<"U+1E900">>>>,
     <<"U+1E923", <<"U+1E901">>>>, <<"U+1E924", <<"U+1E902">>>>,
     <<"U+1E925", <<"U+1E903">>>>, <<"U+1E926", <<"U+1E904">>>>,
     <<"U+1E927", <<"U+1E905">>>>, <<"U+1E928", <<"U+1E906">>>>,
     <<"U+1E929", <<"U+1E907">>>>, <<"U+1E92A", <<"U+1E908">>>>,
     <<"U+1E92B", <<"U+1E909">>>>, <<"U+1E92C", <<"U+1E90A">>>>,
     <<"U+1E92D", <<"U+1E90B">>>>, <<"U+1E92E", <<"U+1E90C">>>>,
     <<"U+1E92F", <<"U+1E90D">>>>, <<"U+1E930", <<"U+1E90E">>>>,
     <<"U+1E931", <<"U+1E90F">>>>, <<"U+1E932", <<"U+1E910">>>>,
     <<"U+1E933", <<"U+1E911">>>>, <<"U+1E934", <<"U+1E912">>>>,
     <<"U+1E935", <<"U+1E913">>>>, <<"U+1E936", <<"U+1E914">>>>,
     <<"U+1E937", <<"U+1E915">>>>, <<"U+1E938", <<"U+1E916">>>>,
     <<"U+1E939", <<"U+1E917">>>>, <<"U+1E93A", <<"U+1E918">>>>,
     <<"U+1E93B", <<"U+1E919">>>>, <<"U+1E93C", <<"U+1E91A">>>>,
     <<"U+1E93D", <<"U+1E91B">>>>, <<"U+1E93E", <<"U+1E91C">>>>,
     <<"U+1E93F", <<"U+1E91D">>>>, <<"U+1E940", <<"U+1E91E">>>>,
     <<"U+1E941", <<"U+1E91F">>>>, <<"U+1E942", <<"U+1E920">>>>,
     <<"U+1E943", <<"U+1E921">>>>
    >>
LowerToUpperKeys == {LowerToUpper[i][1] : i \in 1..Len(LowerToUpper)}
upper_char(c) ==
    IF c \in DOMAIN AsciiUpper THEN <<AsciiUpper[c]>>
    ELSE IF c \in LowerToUpperKeys
    THEN LowerToUpper[CHOOSE i \in 1..Len(LowerToUpper) :
                          LowerToUpper[i][1] = c][2]
    ELSE <<c>>
\* upper of the characters lo to hi of s
RECURSIVE str_upper_range(_, _, _)
str_upper_range(s, lo, hi) ==
    IF lo > hi THEN <<>>
    ELSE IF lo = hi THEN upper_char(s[lo])
    ELSE LET mid == (lo + hi) \div 2
         IN  str_upper_range(s, lo, mid) \o str_upper_range(s, mid + 1, hi)
str_upper(s) == str_upper_range(s, 1, Len(s))

RsyncScheme == <<"r", "s", "y", "n", "c", ":", "/", "/">>
ConsoleUrl == <<"h", "t", "t", "p", "s", ":", "/", "/", "c", "o", "n", "s",
                "o", "l", "e", ".", "r", "p", "k", "i", "-", "c", "l", "i",
                "e", "n", "t", ".", "o", "r", "g", "/">>
HtmlSuffix == <<".", "h", "t", "m", "l">>

(***************************************************************************)
(* Numbers: ASNs, addresses and prefixes.                                  *)
(***************************************************************************)
\* An integer from -2^32 to 2^32 - 1 (every ASN) is held as <<hi, lo>>,
\* hi * 65536 + lo with lo in 0..65535 and hi in -65536..65535.  An integer
\* beyond is held as the list of its decimal digits, ten or more, the
\* highest first and without leading zeros; the first digit of a negative
\* one is negative.
Asn(n) == <<n \div 65536, n % 65536>>
MAX_ASN_NUM == <<65535, 65535>>

\* list(range(start_asn, end_asn + 1))
AsnCount(s, e) == (e[1] - s[1]) * 65536 + (e[2] - s[2]) + 1
AsnPlus(s, k) == <<s[1] + (s[2] + k) \div 65536, (s[2] + k) % 65536>>
asn_range(s, e) ==
    IF AsnCount(s, e) <= 0 THEN <<>>
    ELSE [i \in 1..AsnCount(s, e) |-> AsnPlus(s, i - 1)]

Min(a, b) == IF a <= b THEN a ELSE b
Shr(n, s) == IF s >= 31 THEN 0 ELSE n \div (2 ^ s)

\* A prefix is a text.  It is held as the value PyTricia reads from it
\* (family: 6 when the text has a ':', the first len bits, the length) and
\* its spelling: "" for the canonical text of that value, else the text as
\* written.  Two prefixes are the same text when all four fields agree.
PfxText(fam, net, len, spelling) ==
    [fam |-> fam, net |-> net, len |-> len, spelling |-> spelling]
Pfx4(net, len) == PfxText(4, net, len, "")
Pfx6(net, len) == PfxText(6, net, len, "")
\* the texts "0.0.0.0/0" and "::/0"
DefaultRoute4 == Pfx4(0, 0)
DefaultRoute6 == Pfx6(0, 0)
\* the key PyTricia keeps for a text: the canonical text of its value
pytricia_key(pfx) == [pfx EXCEPT !.spelling = ""]

\* stored prefix k is p itself or a supernet of p
Covers(k, p) ==
    /\ k.fam = p.fam
    /\ k.len <= p.len
    /\ Shr(p.net, p.len - k.len) = k.net

\* PyTricia: pyt[pfx] = v, and pfx in pyt (longest-prefix match)
EmptyTrie == [p \in {} |-> ""]
TrieSet(pyt, pfx, v) ==
    [q \in DOMAIN pyt \cup {pytricia_key(pfx)} |->
        IF q = pytricia_key(pfx) THEN v ELSE pyt[q]]
TrieContains(pyt, pfx) == \E k \in DOMAIN pyt : Covers(k, pfx)

(***************************************************************************)
(* imports.get_cidr: ipaddress.summarize_address_range on an IPv4 range    *)
(* first..last (both below 2^31).  A network is its first address and its  *)
(* prefix length; str(network) is the prefix text.                         *)
(***************************************************************************)
RECURSIVE count_righthand_zero_bits(_, _)
count_righthand_zero_bits(number, bits) ==
    IF number = 0 THEN bits
    ELSE IF number % 2 = 1 \/ bits = 0 THEN 0
         ELSE 1 + count_righthand_zero_bits(number \div 2, bits - 1)

RECURSIVE bit_length(_)
bit_length(n) == IF n = 0 THEN 0 ELSE 1 + bit_length(n \div 2)

\* the loop without the bit_length bound: the largest block that is
\* aligned at first, whether or not it ends by last
RECURSIVE summarize_address_range_aligned_only(_, _)
summarize_address_range_aligned_only(first, last) ==
    IF first > last THEN <<>>
    ELSE LET nbits == count_righthand_zero_bits(first, 32)
         IN  <<[addr |-> first, prefixlen |-> 32 - nbits]>>
             \o summarize_address_range_aligned_only(first + 2 ^ nbits, last)

\* (last - first + 1).bit_length(), with no number above last - first
span_bit_length(first, last) ==
    LET d == last - first
    IN  IF d % 2 = 1 THEN 1 + bit_length((d \div 2) + 1)
        ELSE bit_length(d + 1)

\* (1 << nbits) - 1
RECURSIVE all_ones(_)
all_ones(nbits) == IF nbits = 0 THEN 0 ELSE (2 * all_ones(nbits - 1)) + 1

\* the while loop of summarize_address_range: the block of 2^nbits
\* addresses at first never ends after last, and first + (1 << nbits) is
\* above last exactly when the block ends at last
RECURSIVE summarize_address_range(_, _)
summarize_address_range(first, last) ==
    IF first > last THEN <<>>
    ELSE LET nbits == Min(count_righthand_zero_bits(first, 32),
                          span_bit_length(first, last) - 1)
             block_last == first + all_ones(nbits)
         IN  <<[addr |-> first, prefixlen |-> 32 - nbits]>>
             \o (IF block_last = last THEN <<>>
                 ELSE summarize_address_range(block_last + 1, last))

\* str(IPv4Network((addr, prefixlen)))
network_str(x) == Pfx4(Shr(x.addr, 32 - x.prefixlen), x.prefixlen)

get_cidr(start_ip, end_ip) ==
    IF start_ip > end_ip THEN Raise("ValueError")
    ELSE LET nets == summarize_address_range(start_ip, end_ip)
         IN  Return([i \in 1..Len(nets) |-> network_str(nets[i])])


(***************************************************************************)
(* The records an archive may hold (one JSON object per line).  R, C and A *)
(* are the end-to-end scenario: a root CA, its child CA and a ROA under    *)
(* the child.                                                              *)
(***************************************************************************)
Txt_test == <<"t", "e", "s", "t">>
Txt_Test == <<"T", "e", "s", "t">>
Txt_arin == <<"a", "r", "i", "n">>
Txt_TEST == <<"T", "E", "S", "T">>
File_R == RsyncScheme \o <<"h", "1", "/", "R">>
File_C == RsyncScheme \o <<"h", "2", "/", "C">>
Repo_C == RsyncScheme \o <<"h", "2", "/", "r", "/">>
File_A == RsyncScheme \o <<"h", "2", "/", "A">>
File_S == <<"h", "3", "/", "S">>
Repo_B == <<"h", "4">>

\* a resource of subordinate_resources is a dict, read in the order of its
\* keys: a list of <<key, value>>; rpki-client writes one key per resource
Resource(k, v) == <<<<k, v>>>>

RecR == [type |-> "ca_cert", ski |-> "R", tal |-> Txt_test, file |-> File_R,
         subordinate_resources |->
             <<Resource("ip_prefix", Pfx4(10, 8)),
               Resource("asid", Asn(65000))>>]
RecC == [type |-> "ca_cert", ski |-> "C", aki |-> "R", file |-> File_C,
         carepository |-> Repo_C,
         subordinate_resources |-> <<Resource("ip_prefix", Pfx4(2561, 16))>>]
RecA == [type |-> "roa", ski |-> "A", aki |-> "C", file |-> File_A,
         vrps |-> <<[prefix |-> Pfx4(655617, 24), asid |-> Asn(65001)]>>]
\* a second record for ski C: another issuer (with RecA: C -> A -> C),
\* neither file nor carepository; its second resource has two keys, the
\* range 10.2.0.0 to 10.2.0.2 before the prefix
RecC2 == [type |-> "ca_cert", ski |-> "C", aki |-> "A",
          subordinate_resources |->
              <<Resource("asrange",
                         [min |-> Asn(64512), max |-> Asn(64514)]),
                <<<<"ip_range", [min |-> 167903232, max |-> 167903234]>>,
                  <<"ip_prefix", Pfx6(536939960, 32)>>>>>>]
\* its own issuer, resources inherited
RecS == [type |-> "ca_cert", ski |-> "S", aki |-> "S", file |-> File_S,
         subordinate_resources |->
             <<Resource("asid_inherit", TRUE), Resource("ip_inherit", TRUE)>>]
\* issued by X, of which the archive has no record; an ASN range to the
\* ceiling that is not one of the umbrella markers, and the IPv6 default
\* route spelled "0::/0"
RecB == [type |-> "ca_cert", ski |-> "B", aki |-> "X", carepository |-> Repo_B,
         subordinate_resources |->
             <<Resource("asrange", [min |-> Asn(65010), max |-> MAX_ASN_NUM]),
               Resource("asid", Asn(64512)),
               Resource("ip_prefix", Pfx4(655617, 24)),
               Resource("ip_prefix", PfxText(6, 0, 0, "0::/0"))>>]
\* another record for ski B, whose range 10.2.0.2 to 10.2.0.0 ends before
\* it starts
RecB3 == [type |-> "ca_cert", ski |-> "B", aki |-> "X",
          subordinate_resources |->
              <<Resource("asid", Asn(64512)),
                Resource("ip_range",
                         [min |-> 167903234, max |-> 167903232])>>]
\* a ROA issued by the root's key
RecA2 == [type |-> "roa", ski |-> "A", aki |-> "R", file |-> File_A,
          vrps |-> <<[prefix |-> Pfx4(10, 8), asid |-> Asn(65000)],
                     [prefix |-> DefaultRoute6, asid |-> Asn(65001)]>>]
\* more records with a tal, for the SKIs S, B and C: one whose tal differs
\* from R's in letter case only, one with R's tal, one with another tal
RecS2 == [type |-> "ca_cert", ski |-> "S", tal |-> Txt_Test,
          subordinate_resources |-> <<>>]
RecB2 == [type |-> "ca_cert", ski |-> "B", tal |-> Txt_test,
          subordinate_resources |-> <<>>]
RecC3 == [type |-> "ca_cert", ski |-> "C", tal |-> Txt_arin,
          subordinate_resources |-> <<>>]
\* records with a tal for the table of roots: one with the empty SKI, two
\* whose tal values, "stra\u00dfe" and "STRASSE", have the same upper form
\* without differing in letter case only, and one whose tal is Greek
\* (alpha, final sigma) and has the upper form U+0391 U+03A3
Txt_ripe == <<"r", "i", "p", "e">>
Txt_strasze == <<"s", "t", "r", "a", "ß", "e">>
Txt_STRASSE == <<"S", "T", "R", "A", "S", "S", "E">>
Txt_alpha_sigma == <<"U+03B1", "U+03C2">>
RecE == [type |-> "ca_cert", ski |-> "", tal |-> Txt_ripe,
         subordinate_resources |-> <<>>]
RecG == [type |-> "ca_cert", ski |-> "G", tal |-> Txt_strasze,
         subordinate_resources |-> <<>>]
RecH == [type |-> "ca_cert", ski |-> "H", tal |-> Txt_STRASSE,
         subordinate_resources |-> <<>>]
RecK == [type |-> "ca_cert", ski |-> "K", tal |-> Txt_alpha_sigma,
         subordinate_resources |-> <<>>]
\* records buildTree passes over
RecM == [type |-> "mft", ski |-> "M", aki |-> "R", file |-> File_R]
RecN == [ski |-> "N", aki |-> "R"]

Archive == {RecR, RecC, RecA, RecC2, RecS, RecB, RecB3, RecA2, RecS2, RecB2,
            RecC3, RecM, RecN}

\* the archive get_root_dict is studied on, and the one search_asn is
TalArchive == {RecR, RecC, RecS2, RecB2, RecC3, RecE, RecG, RecH, RecK, RecM}
AsnArchive == {RecR, RecC, RecA, RecC2, RecB, RecN}

\* the SKIs queries are made with: those of the archive, X (only ever
\* named as an issuer), Z (in no record) and the empty string
QuerySkis == {"", "R", "C", "A", "S", "B", "X", "Z"}

(***************************************************************************)
(* PKITree: the object is the record self of its six attributes.           *)
(***************************************************************************)
PKITree_init ==
    [parent_to_child |-> <<>>, child_to_parent |-> <<>>, node_data |-> <<>>,
     resource_dict_pfx_v4 |-> <<>>, resource_dict_pfx_v6 |-> <<>>,
     resource_dict_asn |-> <<>>]

\* d[k] on a defaultdict: the dict after the access (a missing key is
\* created with the default value)
DefaultTouch(d, k, dflt) == IF HasKey(d, k) THEN d ELSE Append(d, <<k, dflt>>)

\* insert_node without its last two lines: the aki gets no entry of its own
insert_node_no_preseed(self, ski, aki, data) ==
    IF HasKey(self.node_data, ski) THEN self
    ELSE
      LET p2c == IF ski # aki
                 THEN LET d == DefaultTouch(self.parent_to_child, aki, <<>>)
                      IN  DictSet(d, aki, Append(DictGet(d, aki), ski))
                 ELSE self.parent_to_child
          c2p0 == DefaultTouch(self.child_to_parent, ski, "")
          aki1 == IF ski = aki THEN "" ELSE aki
          c2p == IF Len(DictGet(c2p0, ski)) > 0 THEN c2p0
                 ELSE DictSet(c2p0, ski, aki1)
      IN  [self EXCEPT !.node_data = DictSet(self.node_data, ski, data),
                       !.parent_to_child = p2c,
                       !.child_to_parent = c2p]

\* insert_node without its first test: a known ski is inserted again
insert_node_no_dup_check(self, ski, aki, data) ==
    LET p2c == IF ski # aki
               THEN LET d == DefaultTouch(self.parent_to_child, aki, <<>>)
                    IN  DictSet(d, aki, Append(DictGet(d, aki), ski))
               ELSE self.parent_to_child
        c2p0 == DefaultTouch(self.child_to_parent, ski, "")
        aki1 == IF ski = aki THEN "" ELSE aki
        c2p1 == DictSet(c2p0, ski, aki1)
        c2p == IF Len(DictGet(c2p0, ski)) > 0 THEN c2p0
               ELSE IF HasKey(c2p1, aki1) THEN c2p1
                    ELSE DictSet(c2p1, aki1, "")
    IN  [self EXCEPT !.node_data = DictSet(self.node_data, ski, data),
                     !.parent_to_child = p2c,
                     !.child_to_parent = c2p]

\* insert_node without the test ski != aki: a self-issued ski is listed
\* among its own children
insert_node_lists_self(self, ski, aki, data) ==
    IF HasKey(self.node_data, ski) THEN self
    ELSE
      LET p2c == LET d == DefaultTouch(self.parent_to_child, aki, <<>>)
                 IN  DictSet(d, aki, Append(DictGet(d, aki), ski))
          c2p0 == DefaultTouch(self.child_to_parent, ski, "")
          aki1 == IF ski = aki THEN "" ELSE aki
          c2p1 == DictSet(c2p0, ski, aki1)
          c2p == IF Len(DictGet(c2p0, ski)) > 0 THEN c2p0
                 ELSE IF HasKey(c2p1, aki1) THEN c2p1
                      ELSE DictSet(c2p1, aki1, "")
      IN  [self EXCEPT !.node_data = DictSet(self.node_data, ski, data),
                       !.parent_to_child = p2c,
                       !.child_to_parent = c2p]

insert_node(self, ski, aki, data) ==
    IF HasKey(self.node_data, ski) THEN self
    ELSE
      LET p2c == IF ski # aki
                 THEN LET d == DefaultTouch(self.parent_to_child, aki, <<>>)
                      IN  DictSet(d, aki, Append(DictGet(d, aki), ski))
                 ELSE self.parent_to_child
          c2p0 == DefaultTouch(self.child_to_parent, ski, "")
          aki1 == IF ski = aki THEN "" ELSE aki
          c2p1 == DictSet(c2p0, ski, aki1)
          c2p == IF Len(DictGet(c2p0, ski)) > 0 THEN c2p0
                 ELSE IF HasKey(c2p1, aki1) THEN c2p1
                      ELSE DictSet(c2p1, aki1, "")
      IN  [self EXCEPT !.node_data = DictSet(self.node_data, ski, data),
                       !.parent_to_child = p2c,
                       !.child_to_parent = c2p]

\* get_parent by indexing the defaultdict: an unknown ski gives its default
get_parent_default(self, ski) ==
    IF HasKey(self.child_to_parent, ski)
    THEN Some(DictGet(self.child_to_parent, ski))
    ELSE Some("")

get_parent(self, ski) == DictGetOrNone(self.child_to_parent, ski)
get_children(self, ski) == DictGetOrNone(self.parent_to_child, ski)
get_data(self, ski) == DictGetOrNone(self.node_data, ski)

\* The object after a lookup.  The getters read with dict.get(ski, None),
\* which leaves the dictionary as it is, also for a key it does not have
\* (indexing a defaultdict creates the key: DefaultTouch).
\* get_parent written as self.child_to_parent[ski]
get_parent_self_indexed(self, ski) ==
    [self EXCEPT !.child_to_parent = DefaultTouch(@, ski, "")]

get_parent_self(self, ski) == self
get_children_self(self, ski) == self
get_data_self(self, ski) == self

\* the object after a method that looks up each of skis in turn
RECURSIVE after_lookups(_, _)
after_lookups(self, skis) ==
    IF skis = <<>> THEN self
    ELSE after_lookups(
             get_data_self(
                 get_children_self(get_parent_self(self, Head(skis)),
                                   Head(skis)),
                 Head(skis)),
             Tail(skis))

get_url(self, ski) ==
    LET data == get_data(self, ski)
    IN  IF data = None THEN Return(None)
        ELSE IF "file" \notin DOMAIN data[1] THEN Raise("KeyError")
        ELSE Return(Some(ConsoleUrl \o data[1].file \o HtmlSuffix))

get_ca_domain(self, ski) ==
    LET data == get_data(self, ski)
    IN  IF data = None THEN Raise("TypeError")
        ELSE IF "carepository" \in DOMAIN data[1]
        THEN Return(Some(str_split_first(
                 str_remove(data[1].carepository, RsyncScheme), "/")))
        ELSE IF "file" \notin DOMAIN data[1] THEN Raise("KeyError")
        ELSE Return(Some(str_split_first(
                 str_remove(data[1].file, RsyncScheme), "/")))

\* get_root_dict whose keys are the tal values as the records have them
RECURSIVE root_dict_loop_no_upper(_, _)
root_dict_loop_no_upper(items, root_dict) ==
    IF items = <<>> THEN root_dict
    ELSE LET ski == Head(items)[1]
             data == Head(items)[2]
         IN  root_dict_loop_no_upper(Tail(items),
                 IF "tal" \in DOMAIN data /\ Len(ski) > 0
                 THEN DictSet(root_dict, data.tal, ski)
                 ELSE root_dict)

\* the loop of get_root_dict over node_data.items()
RECURSIVE root_dict_loop(_, _)
root_dict_loop(items, root_dict) ==
    IF items = <<>> THEN root_dict
    ELSE LET ski == Head(items)[1]
             data == Head(items)[2]
         IN  root_dict_loop(Tail(items),
                 IF "tal" \in DOMAIN data /\ Len(ski) > 0
                 THEN DictSet(root_dict, str_upper(data.tal), ski)
                 ELSE root_dict)

get_root_dict(self) == root_dict_loop(self.node_data, <<>>)

(***************************************************************************)
(* Classification.  A record of the tree has a type, a ca_cert record has  *)
(* subordinate_resources and a roa record has vrps (buildTree inserts no   *)
(* other record, and rpki-client writes no other).                         *)
(***************************************************************************)
is_roa(self, ski) ==
    LET data == get_data(self, ski)
    IN  IF data = None THEN None
        ELSE IF data[1].type = "roa" THEN Some(TRUE)
        ELSE Some(FALSE)

\* each hit is a dict of one key, so a resource equals it (dicts compare
\* without regard to key order) exactly when it is the same one-item list
hit_list ==
    <<Resource("asrange", [min |-> Asn(0), max |-> MAX_ASN_NUM]),
      Resource("asrange", [min |-> Asn(1), max |-> MAX_ASN_NUM]),
      Resource("ip_prefix", DefaultRoute4),
      Resource("ip_prefix", DefaultRoute6),
      Resource("asid_inherit", TRUE),
      Resource("ip_inherit", TRUE),
      Resource("ip_inherit", TRUE)>>

\* is_rir_owned_rc without its test of "tal"
is_rir_owned_rc_no_tal(self, ski) ==
    LET data == get_data(self, ski)
    IN  IF data = None THEN None
        ELSE IF is_roa(self, ski) = Some(TRUE) THEN Some(FALSE)
        ELSE IF \E i \in 1..Len(hit_list) :
                    hit_list[i] \in Range(data[1].subordinate_resources)
             THEN Some(TRUE)
        ELSE Some(FALSE)

is_rir_owned_rc(self, ski) ==
    LET data == get_data(self, ski)
    IN  IF data = None THEN None
        ELSE IF "tal" \in DOMAIN data[1] THEN Some(TRUE)
        ELSE IF is_roa(self, ski) = Some(TRUE) THEN Some(FALSE)
        ELSE IF \E i \in 1..Len(hit_list) :
                    hit_list[i] \in Range(data[1].subordinate_resources)
             THEN Some(TRUE)
        ELSE Some(FALSE)

is_end_node_certificate(self, ski) ==
    LET data == get_data(self, ski)
        child_list == get_children(self, ski)
    IN  IF data = None THEN None
        ELSE IF is_roa(self, ski) = Some(TRUE) THEN Some(FALSE)
        ELSE IF child_list = None THEN Some(TRUE)
        ELSE IF \E i \in 1..Len(child_list[1]) :
                    get_data(self, child_list[1][i])[1].type # "roa"
             THEN Some(FALSE)
        ELSE Some(TRUE)

has_issued_roas(self, ski) ==
    LET data == get_data(self, ski)
        child_list == get_children(self, ski)
    IN  IF data = None THEN None
        ELSE IF data[1].type # "ca_cert" THEN Some(FALSE)
        ELSE IF is_rir_owned_rc(self, ski) = Some(TRUE) THEN Some(FALSE)
        ELSE IF child_list = None THEN Some(TRUE)
        ELSE IF \E i \in 1..Len(child_list[1]) :
                    get_data(self, child_list[1][i])[1].type = "roa"
             THEN Some(TRUE)
        ELSE Some(FALSE)

(***************************************************************************)
(* get_resource_list.                                                      *)
(***************************************************************************)
\* the loop over resource.items() of one resource: acc holds prefix_list,
\* asn_list and the exception that ended the loop ("" while none)
RECURSIVE resource_items(_, _)
resource_items(items, acc) ==
    IF items = <<>> \/ acc.exc # "" THEN acc
    ELSE
      LET k == Head(items)[1]
          v == Head(items)[2]
          cidr == get_cidr(v.min, v.max)
          next ==
              IF k = "asid_inherit" \/ k = "ip_inherit" THEN acc
              ELSE IF k = "ip_prefix"
              THEN [acc EXCEPT !.prefix_list = Append(@, v)]
              ELSE IF k = "asid"
              THEN [acc EXCEPT !.asn_list = Append(@, v)]
              ELSE IF k = "ip_range"
              THEN IF cidr.exc # "" THEN [acc EXCEPT !.exc = cidr.exc]
                   ELSE [acc EXCEPT !.prefix_list = @ \o cidr.val]
              ELSE IF k = "asrange"
              THEN IF v.max = MAX_ASN_NUM THEN acc
                   ELSE [acc EXCEPT !.asn_list = @ \o asn_range(v.min, v.max)]
              ELSE acc
      IN  resource_items(Tail(items), next)

\* the loop over resource_list
RECURSIVE extract_resources_loop(_, _)
extract_resources_loop(resource_list, acc) ==
    IF resource_list = <<>> \/ acc.exc # "" THEN acc
    ELSE extract_resources_loop(Tail(resource_list),
                                resource_items(Head(resource_list), acc))

\* [exc, prefix_list, asn_list]: the two lists returned, or the exception
extract_resources(resource_list) ==
    extract_resources_loop(resource_list,
        [exc |-> "", prefix_list |-> <<>>, asn_list |-> <<>>])

\* extract_vrps appends the origin ASNs to the asn_list of the enclosing
\* call and returns an origin_asn_list that stays empty
extract_vrps(vrps, asn_list) ==
    [prefix_list |-> [i \in 1..Len(vrps) |-> vrps[i].prefix],
     origin_asn_list |-> <<>>,
     asn_list |-> asn_list \o [i \in 1..Len(vrps) |-> vrps[i].asid]]

\* the loop over curr_pfx_list: the two tries after it
RECURSIVE store_prefixes(_, _, _)
store_prefixes(pyts, curr_pfx_list, child) ==
    IF curr_pfx_list = <<>> THEN pyts
    ELSE LET pfx == Head(curr_pfx_list)
             next == IF pfx = DefaultRoute4 \/ pfx = DefaultRoute6 THEN pyts
                     ELSE IF pfx.fam = 6
                          THEN [pyts EXCEPT !.pyt6 = TrieSet(@, pfx, child)]
                          ELSE [pyts EXCEPT !.pyt4 = TrieSet(@, pfx, child)]
         IN  store_prefixes(next, Tail(curr_pfx_list), child)

\* the while loop; st holds the locals queue, pyt4, pyt6, asn_list and
\* curr_asn_list (None while unbound), fuel the pops still followed
RECURSIVE resource_loop(_, _, _, _, _)
resource_loop(self, resource_type, recursive, st, fuel) ==
    IF st.queue = <<>>
    THEN Return(<<st.pyt4, st.pyt6, Range(st.asn_list)>>)
    ELSE IF fuel = 0 THEN Raise("unfinished")
    ELSE
      LET child == Head(st.queue)
          popped == [st EXCEPT !.queue = Tail(st.queue)]
          got == get_data(self, child)
      IN  IF got = None THEN Raise("AttributeError")
          ELSE
            LET data == got[1]
                skip == \/ data.type = "roa" /\ resource_type = "ca_cert"
                        \/ data.type = "ca_cert" /\ resource_type = "roa"
                vr == extract_vrps(data.vrps, popped.asn_list)
                er == extract_resources(data.subordinate_resources)
                curr_pfx_list == IF data.type = "roa" THEN vr.prefix_list
                                 ELSE IF data.type = "ca_cert"
                                      THEN er.prefix_list
                                      ELSE <<>>
                curr_asn_list == IF data.type = "roa"
                                 THEN Some(vr.origin_asn_list)
                                 ELSE IF data.type = "ca_cert"
                                      THEN Some(er.asn_list)
                                      ELSE popped.curr_asn_list
                asn_list0 == IF data.type = "roa" THEN vr.asn_list
                             ELSE popped.asn_list
                pyts == store_prefixes(
                            [pyt4 |-> popped.pyt4, pyt6 |-> popped.pyt6],
                            curr_pfx_list, child)
                children == get_children(self, child)
                queue == IF recursive /\ children # None
                         THEN popped.queue \o children[1]
                         ELSE popped.queue
            IN  IF skip
                THEN resource_loop(self, resource_type, recursive, popped,
                                   fuel - 1)
                ELSE IF data.type = "ca_cert" /\ er.exc # ""
                THEN Raise(er.exc)
                ELSE IF curr_asn_list = None THEN Raise("UnboundLocalError")
                ELSE resource_loop(self, resource_type, recursive,
                         [queue |-> queue, pyt4 |-> pyts.pyt4,
                          pyt6 |-> pyts.pyt6,
                          asn_list |-> asn_list0 \o curr_asn_list[1],
                          curr_asn_list |-> curr_asn_list],
                         fuel - 1)

get_resource_list(self, root, resource_type, recursive) ==
    LET children == get_children(self, root)
        queue == IF recursive /\ children # None
                 THEN <<root>> \o children[1]
                 ELSE <<root>>
    IN  resource_loop(self, resource_type, recursive,
                      [queue |-> queue, pyt4 |-> EmptyTrie,
                       pyt6 |-> EmptyTrie, asn_list |-> <<>>,
                       curr_asn_list |-> None],
                      MaxVisits)

(***************************************************************************)
(* populate_resources: the object after the loop over node_data.keys(),    *)
(* which an exception of get_resource_list would leave early.              *)
(***************************************************************************)
\* populate_resources collecting each node's whole subtree
RECURSIVE populate_loop_recursive(_, _)
populate_loop_recursive(self, nodes) ==
    IF nodes = <<>> THEN [exc |-> "", self |-> self]
    ELSE
      LET node == Head(nodes)
          res == get_resource_list(self, node, "all", TRUE)
      IN  IF is_roa(self, node) = Some(TRUE)
          THEN populate_loop_recursive(self, Tail(nodes))
          ELSE IF is_rir_owned_rc(self, node) = Some(TRUE)
          THEN populate_loop_recursive(self, Tail(nodes))
          ELSE IF res.exc # "" THEN [exc |-> res.exc, self |-> self]
          ELSE populate_loop_recursive(
                   [self EXCEPT
                       !.resource_dict_pfx_v4 = DictSet(@, node, res.val[1]),
                       !.resource_dict_pfx_v6 = DictSet(@, node, res.val[2]),
                       !.resource_dict_asn = DictSet(@, node, res.val[3])],
                   Tail(nodes))

\* populate_resources without its test of is_roa
RECURSIVE populate_loop_with_roas(_, _)
populate_loop_with_roas(self, nodes) ==
    IF nodes = <<>> THEN [exc |-> "", self |-> self]
    ELSE
      LET node == Head(nodes)
          res == get_resource_list(self, node, "all", FALSE)
      IN  IF is_rir_owned_rc(self, node) = Some(TRUE)
          THEN populate_loop_with_roas(self, Tail(nodes))
          ELSE IF res.exc # "" THEN [exc |-> res.exc, self |-> self]
          ELSE populate_loop_with_roas(
                   [self EXCEPT
                       !.resource_dict_pfx_v4 = DictSet(@, node, res.val[1]),
                       !.resource_dict_pfx_v6 = DictSet(@, node, res.val[2]),
                       !.resource_dict_asn = DictSet(@, node, res.val[3])],
                   Tail(nodes))

RECURSIVE populate_loop(_, _)
populate_loop(self, nodes) ==
    IF nodes = <<>> THEN [exc |-> "", self |-> self]
    ELSE
      LET node == Head(nodes)
          res == get_resource_list(self, node, "all", FALSE)
      IN  IF is_roa(self, node) = Some(TRUE)
          THEN populate_loop(self, Tail(nodes))
          ELSE IF is_rir_owned_rc(self, node) = Some(TRUE)
          THEN populate_loop(self, Tail(nodes))
          ELSE IF res.exc # "" THEN [exc |-> res.exc, self |-> self]
          ELSE populate_loop(
                   [self EXCEPT
                       !.resource_dict_pfx_v4 = DictSet(@, node, res.val[1]),
                       !.resource_dict_pfx_v6 = DictSet(@, node, res.val[2]),
                       !.resource_dict_asn = DictSet(@, node, res.val[3])],
                   Tail(nodes))

populate_resources(self) == populate_loop(self, DictKeys(self.node_data))

(***************************************************************************)
(* Search.                                                                 *)
(***************************************************************************)
search_asn(self, asn, resource_type) ==
    SelectSeq(DictKeys(self.resource_dict_asn),
              LAMBDA node :
                  /\ asn \in DictGet(self.resource_dict_asn, node)
                  /\ \/ resource_type = "all"
                     \/ get_data(self, node)[1].type = resource_type)

\* int(text) and str(n).  int takes blanks around an optional sign and
\* decimal digits with single underscores between them; the digits are
\* those of any script and the blanks those of Unicode, of the ASCII
\* characters only tab, line feed, vertical tab, form feed, carriage return
\* and space.  It raises ValueError for any other text and for one of more
\* than int_max_str_digits digits (sys.int_info.default_max_str_digits).
int_max_str_digits == 4300
\* the digits 0 to 9 of each script, ASCII first
DecimalDigits ==
    <<
     <<"0", "1", "2", "3", "4", "5", "6", "7", "8", "9">>,
     <<"U+0660", "U+0661", "U+0662", "U+0663", "U+0664", "U+0665", "U+0666", "U+0667", "U+0668", "U+0669">>,
     <<"U+06F0", "U+06F1", "U+06F2", "U+06F3", "U+06F4", "U+06F5", "U+06F6", "U+06F7", "U+06F8", "U+06F9">>,
     <<"U+07C0", "U+07C1", "U+07C2", "U+07C3", "U+07C4", "U+07C5", "U+07C6", "U+07C7", "U+07C8", "U+07C9">>,
     <<"U+0966", "U+0967", "U+0968", "U+0969", "U+096A", "U+096B", "U+096C", "U+096D", "U+096E", "U+096F">>,
     <<"U+09E6", "U+09E7", "U+09E8", "U+09E9", "U+09EA", "U+09EB", "U+09EC", "U+09ED", "U+09EE", "U+09EF">>,
     <<"U+0A66", "U+0A67", "U+0A68", "U+0A69", "U+0A6A", "U+0A6B", "U+0A6C", "U+0A6D", "U+0A6E", "U+0A6F">>,
     <<"U+0AE6", "U+0AE7", "U+0AE8", "U+0AE9", "U+0AEA", "U+0AEB", "U+0AEC", "U+0AED", "U+0AEE", "U+0AEF">>,
     <<"U+0B66", "U+0B67", "U+0B68", "U+0B69", "U+0B6A", "U+0B6B", "U+0B6C", "U+0B6D", "U+0B6E", "U+0B6F">>,
     <<"U+0BE6", "U+0BE7", "U+0BE8", "U+0BE9", "U+0BEA", "U+0BEB", "U+0BEC", "U+0BED", "U+0BEE", "U+0BEF">>,
     <<"U+0C66", "U+0C67", "U+0C68", "U+0C69", "U+0C6A", "U+0C6B", "U+0C6C", "U+0C6D", "U+0C6E", "U+0C6F">>,
     <<"U+0CE6", "U+0CE7", "U+0CE8", "U+0CE9", "U+0CEA", "U+0CEB", "U+0CEC", "U+0CED", "U+0CEE", "U+0CEF">>,
     <<"U+0D66", "U+0D67", "U+0D68", "U+0D69", "U+0D6A", "U+0D6B", "U+0D6C", "U+0D6D", "U+0D6E", "U+0D6F">>,
     <<"U+0DE6", "U+0DE7", "U+0DE8", "U+0DE9", "U+0DEA", "U+0DEB", "U+0DEC", "U+0DED", "U+0DEE", "U+0DEF">>,
     <<"U+0E50", "U+0E51", "U+0E52", "U+0E53", "U+0E54", "U+0E55", "U+0E56", "U+0E57", "U+0E58", "U+0E59">>,
     <<"U+0ED0", "U+0ED1", "U+0ED2", "U+0ED3", "U+0ED4", "U+0ED5", "U+0ED6", "U+0ED7", "U+0ED8", "U+0ED9">>,
     <<"U+0F20", "U+0F21", "U+0F22", "U+0F23", "U+0F24", "U+0F25", "U+0F26", "U+0F27", "U+0F28", "U+0F29">>,
     <<"U+1040", "U+1041", "U+1042", "U+1043", "U+1044", "U+1045", "U+1046", "U+1047", "U+1048", "U+1049">>,
     <<"U+1090", "U+1091", "U+1092", "U+1093", "U+1094", "U+1095", "U+1096", "U+1097", "U+1098", "U+1099">>,
     <<"U+17E0", "U+17E1", "U+17E2", "U+17E3", "U+17E4", "U+17E5", "U+17E6", "U+17E7", "U+17E8", "U+17E9">>,
     <<"U+1810", "U+1811", "U+1812", "U+1813", "U+1814", "U+1815", "U+1816", "U+1817", "U+1818", "U+1819">>,
     <<"U+1946", "U+1947", "U+1948", "U+1949", "U+194A", "U+194B", "U+194C", "U+194D", "U+194E", "U+194F">>,
     <<"U+19D0", "U+19D1", "U+19D2", "U+19D3", "U+19D4", "U+19D5", "U+19D6", "U+19D7", "U+19D8", "U+19D9">>,
     <<"U+1A80", "U+1A81", "U+1A82", "U+1A83", "U+1A84", "U+1A85", "U+1A86", "U+1A87", "U+1A88", "U+1A89">>,
     <<"U+1A90", "U+1A91", "U+1A92", "U+1A93", "U+1A94", "U+1A95", "U+1A96", "U+1A97", "U+1A98", "U+1A99">>,
     <<"U+1B50", "U+1B51", "U+1B52", "U+1B53", "U+1B54", "U+1B55", "U+1B56", "U+1B57", "U+1B58", "U+1B59">>,
     <<"U+1BB0", "U+1BB1", "U+1BB2", "U+1BB3", "U+1BB4", "U+1BB5", "U+1BB6", "U+1BB7", "U+1BB8", "U+1BB9">>,
     <<"U+1C40", "U+1C41", "U+1C42", "U+1C43", "U+1C44", "U+1C45", "U+1C46", "U+1C47", "U+1C48", "U+1C49">>,
     <<"U+1C50", "U+1C51", "U+1C52", "U+1C53", "U+1C54", "U+1C55", "U+1C56", "U+1C57", "U+1C58", "U+1C59">>,
     <<"U+A620", "U+A621", "U+A622", "U+A623", "U+A624", "U+A625", "U+A626", "U+A627", "U+A628", "U+A629">>,
     <<"U+A8D0", "U+A8D1", "U+A8D2", "U+A8D3", "U+A8D4", "U+A8D5", "U+A8D6", "U+A8D7", "U+A8D8", "U+A8D9">>,
     <<"U+A900", "U+A901", "U+A902", "U+A903", "U+A904", "U+A905", "U+A906", "U+A907", "U+A908", "U+A909">>,
     <<"U+A9D0", "U+A9D1", "U+A9D2", "U+A9D3", "U+A9D4", "U+A9D5", "U+A9D6", "U+A9D7", "U+A9D8", "U+A9D9">>,
     <<"U+A9F0", "U+A9F1", "U+A9F2", "U+A9F3", "U+A9F4", "U+A9F5", "U+A9F6", "U+A9F7", "U+A9F8", "U+A9F9">>,
     <<"U+AA50", "U+AA51", "U+AA52", "U+AA53", "U+AA54", "U+AA55", "U+AA56", "U+AA57", "U+AA58", "U+AA59">>,
     <<"U+ABF0", "U+ABF1", "U+ABF2", "U+ABF3", "U+ABF4", "U+ABF5", "U+ABF6", "U+ABF7", "U+ABF8", "U+ABF9">>,
     <<"U+FF10", "U+FF11", "U+FF12", "U+FF13", "U+FF14", "U+FF15", "U+FF16", "U+FF17", "U+FF18", "U+FF19">>,
     <<"U+104A0", "U+104A1", "U+104A2", "U+104A3", "U+104A4", "U+104A5", "U+104A6", "U+104A7", "U+104A8", "U+104A9">>,
     <<"U+10D30", "U+10D31", "U+10D32", "U+10D33", "U+10D34", "U+10D35", "U+10D36", "U+10D37", "U+10D38", "U+10D39">>,
     <<"U+11066", "U+11067", "U+11068", "U+11069", "U+1106A", "U+1106B", "U+1106C", "U+1106D", "U+1106E", "U+1106F">>,
     <<"U+110F0", "U+110F1", "U+110F2", "U+110F3", "U+110F4", "U+110F5", "U+110F6", "U+110F7", "U+110F8", "U+110F9">>,
     <<"U+11136", "U+11137", "U+11138", "U+11139", "U+1113A", "U+1113B", "U+1113C", "U+1113D", "U+1113E", "U+1113F">>,
     <<"U+111D0", "U+111D1", "U+111D2", "U+111D3", "U+111D4", "U+111D5", "U+111D6", "U+111D7", "U+111D8", "U+111D9">>,
     <<"U+112F0", "U+112F1", "U+112F2", "U+112F3", "U+112F4", "U+112F5", "U+112F6", "U+112F7", "U+112F8", "U+112F9">>,
     <<"U+11450", "U+11451", "U+11452", "U+11453", "U+11454", "U+11455", "U+11456", "U+11457", "U+11458", "U+11459">>,
     <<"U+114D0", "U+114D1", "U+114D2", "U+114D3", "U+114D4", "U+114D5", "U+114D6", "U+114D7", "U+114D8", "U+114D9">>,
     <<"U+11650", "U+11651", "U+11652", "U+11653", "U+11654", "U+11655", "U+11656", "U+11657", "U+11658", "U+11659">>,
     <<"U+116C0", "U+116C1", "U+116C2", "U+116C3", "U+116C4", "U+116C5", "U+116C6", "U+116C7", "U+116C8", "U+116C9">>,
     <<"U+11730", "U+11731", "U+11732", "U+11733", "U+11734", "U+11735", "U+11736", "U+11737", "U+11738", "U+11739">>,
     <<"U+118E0", "U+118E1", "U+118E2", "U+118E3", "U+118E4", "U+118E5", "U+118E6", "U+118E7", "U+118E8", "U+118E9">>,
     <<"U+11950", "U+11951", "U+11952", "U+11953", "U+11954", "U+11955", "U+11956", "U+11957", "U+11958", "U+11959">>,
     <<"U+11C50", "U+11C51", "U+11C52", "U+11C53", "U+11C54", "U+11C55", "U+11C56", "U+11C57", "U+11C58", "U+11C59">>,
     <<"U+11D50", "U+11D51", "U+11D52", "U+11D53", "U+11D54", "U+11D55", "U+11D56", "U+11D57", "U+11D58", "U+11D59">>,
     <<"U+11DA0", "U+11DA1", "U+11DA2", "U+11DA3", "U+11DA4", "U+11DA5", "U+11DA6", "U+11DA7", "U+11DA8", "U+11DA9">>,
     <<"U+16A60", "U+16A61", "U+16A62", "U+16A63", "U+16A64", "U+16A65", "U+16A66", "U+16A67", "U+16A68", "U+16A69">>,
     <<"U+16AC0", "U+16AC1", "U+16AC2", "U+16AC3", "U+16AC4", "U+16AC5", "U+16AC6", "U+16AC7", "U+16AC8", "U+16AC9">>,
     <<"U+16B50", "U+16B51", "U+16B52", "U+16B53", "U+16B54", "U+16B55", "U+16B56", "U+16B57", "U+16B58", "U+16B59">>,
     <<"U+1D7CE", "U+1D7CF", "U+1D7D0", "U+1D7D1", "U+1D7D2", "U+1D7D3", "U+1D7D4", "U+1D7D5", "U+1D7D6", "U+1D7D7">>,
     <<"U+1D7D8", "U+1D7D9", "U+1D7DA", "U+1D7DB", "U+1D7DC", "U+1D7DD", "U+1D7DE", "U+1D7DF", "U+1D7E0", "U+1D7E1">>,
     <<"U+1D7E2", "U+1D7E3", "U+1D7E4", "U+1D7E5", "U+1D7E6", "U+1D7E7", "U+1D7E8", "U+1D7E9", "U+1D7EA", "U+1D7EB">>,
     <<"U+1D7EC", "U+1D7ED", "U+1D7EE", "U+1D7EF", "U+1D7F0", "U+1D7F1", "U+1D7F2", "U+1D7F3", "U+1D7F4", "U+1D7F5">>,
     <<"U+1D7F6", "U+1D7F7", "U+1D7F8", "U+1D7F9", "U+1D7FA", "U+1D7FB", "U+1D7FC", "U+1D7FD", "U+1D7FE", "U+1D7FF">>,
     <<"U+1E140", "U+1E141", "U+1E142", "U+1E143", "U+1E144", "U+1E145", "U+1E146", "U+1E147", "U+1E148", "U+1E149">>,
     <<"U+1E2F0", "U+1E2F1", "U+1E2F2", "U+1E2F3", "U+1E2F4", "U+1E2F5", "U+1E2F6", "U+1E2F7", "U+1E2F8", "U+1E2F9">>,
     <<"U+1E950", "U+1E951", "U+1E952", "U+1E953", "U+1E954", "U+1E955", "U+1E956", "U+1E957", "U+1E958", "U+1E959">>,
     <<"U+1FBF0", "U+1FBF1", "U+1FBF2", "U+1FBF3", "U+1FBF4", "U+1FBF5", "U+1FBF6", "U+1FBF7", "U+1FBF8", "U+1FBF9">>
    >>
AsciiDigits == DecimalDigits[1]
DecimalDigitSet ==
    UNION {Range(DecimalDigits[r]) : r \in 1..Len(DecimalDigits)}
IsDigit(c) == c \in Range(AsciiDigits) \/ c \in DecimalDigitSet
DigitValue(c) ==
    IF c \in Range(AsciiDigits)
    THEN (CHOOSE i \in 1..10 : AsciiDigits[i] = c) - 1
    ELSE (CHOOSE i \in 1..10 :
              \E r \in 1..Len(DecimalDigits) : DecimalDigits[r][i] = c) - 1
Whitespace ==
    {
     "\t", "\n", "", "\f", "\r", " ", "", " ", "U+1680", "U+2000", "U+2001",
     "U+2002", "U+2003", "U+2004", "U+2005", "U+2006", "U+2007", "U+2008",
     "U+2009", "U+200A", "U+2028", "U+2029", "U+202F", "U+205F", "U+3000"
    }
str_lstrip(s) ==
    LET i == first_true([k \in 1..Len(s) |-> s[k] \notin Whitespace],
                        1, Len(s))
    IN  IF i = 0 THEN <<>> ELSE SubSeq(s, i, Len(s))
str_rstrip(s) ==
    LET i == last_true([k \in 1..Len(s) |-> s[k] \notin Whitespace],
                       1, Len(s))
    IN  SubSeq(s, 1, i)
str_strip(s) == str_rstrip(str_lstrip(s))
\* the text without blanks and sign
int_body(s) ==
    LET t == str_strip(s)
    IN  IF t # <<>> /\ (t[1] = "+" \/ t[1] = "-") THEN Tail(t) ELSE t
int_negative(s) == LET t == str_strip(s) IN t # <<>> /\ t[1] = "-"
\* the digits, which are what the limit counts
int_digits(s) == SelectSeq(int_body(s), LAMBDA c : c # "_")
int_valid(s) ==
    LET b == int_body(s)
    IN  /\ b # <<>>
        /\ Len(int_digits(s)) <= int_max_str_digits
        /\ IsDigit(b[1])
        /\ IsDigit(b[Len(b)])
        /\ \A i \in 1..Len(b) : IsDigit(b[i]) \/ b[i] = "_"
        /\ \A i \in 1..(Len(b) - 1) : ~(b[i] = "_" /\ b[i + 1] = "_")
\* <<hi, lo>> of at most ten digits
RECURSIVE int_of_digits(_, _)
int_of_digits(digits, acc) ==
    IF digits = <<>> THEN acc
    ELSE LET lo == (acc[2] * 10) + Head(digits)
         IN  int_of_digits(Tail(digits),
                           <<(acc[1] * 10) + (lo \div 65536), lo % 65536>>)
\* -n in the two halves of n
AsnNegate(n) ==
    IF n[2] = 0 THEN <<0 - n[1], 0>> ELSE <<0 - n[1] - 1, 65536 - n[2]>>
\* the integer of the digits 0..9 given and the sign
int_value(digits, negative) ==
    LET k == first_true([i \in 1..Len(digits) |-> digits[i] # 0],
                        1, Len(digits))
        m == IF k = 0 THEN <<>> ELSE SubSeq(digits, k, Len(digits))
        n == int_of_digits(m, <<0, 0>>)
    IN  IF negative
        THEN IF Len(m) <= 10 /\ (n[1] <= 65535 \/ n = <<65536, 0>>)
             THEN AsnNegate(n)
             ELSE <<0 - m[1]>> \o SubSeq(m, 2, Len(m))
        ELSE IF Len(m) <= 10 /\ n[1] <= 65535 THEN n
             ELSE m
\* int(s)
int_of_str(s) ==
    IF ~int_valid(s) THEN Raise("ValueError")
    ELSE LET d == int_digits(s)
         IN  Return(int_value([i \in 1..Len(d) |-> DigitValue(d[i])],
                              int_negative(s)))
\* str(n) for n from 0 to 2^31 - 1
RECURSIVE str_of_int(_)
str_of_int(n) ==
    IF n < 10 THEN <<AsciiDigits[n + 1]>>
    ELSE str_of_int(n \div 10) \o <<AsciiDigits[(n % 10) + 1]>>

\* the decimal text of n from 0 to 2^32, held as <<hi, lo>>: the digits by
\* division by ten
RECURSIVE str_of_nat(_)
str_of_nat(n) ==
    LET rest == ((n[1] % 10) * 65536) + n[2]
        q == <<n[1] \div 10, rest \div 10>>
        d == <<AsciiDigits[(rest % 10) + 1]>>
    IN  IF q = <<0, 0>> THEN d ELSE str_of_nat(q) \o d
\* the decimal text of an integer n
str_of_integer(n) ==
    IF Len(n) = 2
    THEN IF n[1] < 0 THEN <<"-">> \o str_of_nat(AsnNegate(n))
         ELSE str_of_nat(n)
    ELSE IF n[1] < 0
    THEN <<"-">> \o [i \in 1..Len(n) |->
                        AsciiDigits[(IF i = 1 THEN 0 - n[1] ELSE n[i]) + 1]]
    ELSE [i \in 1..Len(n) |-> AsciiDigits[n[i] + 1]]

\* search_asn of a str without the replace: int of the whole text
search_asn_str_no_replace(self, asn, resource_type) ==
    LET n == int_of_str(asn)
    IN  IF n.exc # "" THEN n
        ELSE Return(search_asn(self, n.val, resource_type))

\* search_asn called with a str
search_asn_str(self, asn, resource_type) ==
    LET n == int_of_str(str_remove(asn, <<"A", "S">>))
    IN  IF n.exc # "" THEN n
        ELSE Return(search_asn(self, n.val, resource_type))

\* search_prefix with an exact lookup (has_key) in place of "in"
search_prefix_exact(self, prefix, resource_type) ==
    LET curr_resource_dict_pfx == IF prefix.fam = 6
                                  THEN self.resource_dict_pfx_v6
                                  ELSE self.resource_dict_pfx_v4
    IN  SelectSeq(DictKeys(curr_resource_dict_pfx),
                  LAMBDA node :
                      /\ prefix \in DOMAIN DictGet(curr_resource_dict_pfx,
                                                   node)
                      /\ \/ resource_type = "all"
                         \/ get_data(self, node)[1].type = resource_type)

search_prefix(self, prefix, resource_type) ==
    LET curr_resource_dict_pfx == IF prefix.fam = 6
                                  THEN self.resource_dict_pfx_v6
                                  ELSE self.resource_dict_pfx_v4
    IN  SelectSeq(DictKeys(curr_resource_dict_pfx),
                  LAMBDA node :
                      /\ TrieContains(DictGet(curr_resource_dict_pfx, node),
                                      prefix)
                      /\ \/ resource_type = "all"
                         \/ get_data(self, node)[1].type = resource_type)

(***************************************************************************)
(* get_path: one pass of the while loop, from its test to the end of its   *)
(* body.  loc holds the locals ski (None once get_parent returned None)    *)
(* and path_list.  The result is a return, a raise, or the locals of the   *)
(* next pass.                                                              *)
(***************************************************************************)
\* get_path that builds the path from the root down, as its docstring has it
get_path_pass_root_first(self, loc) ==
    IF loc.ski = None THEN [at |-> "raise", exc |-> "TypeError"]
    ELSE IF Len(loc.ski[1]) = 0
    THEN [at |-> "return", path_list |-> loc.path_list]
    ELSE LET path_list == <<loc.ski[1]>> \o loc.path_list
             parent == get_parent(self, loc.ski[1])
         IN  IF parent = loc.ski
             THEN [at |-> "return", path_list |-> path_list]
             ELSE [at |-> "loop", ski |-> parent, path_list |-> path_list]

get_path_pass(self, loc) ==
    IF loc.ski = None THEN [at |-> "raise", exc |-> "TypeError"]
    ELSE IF Len(loc.ski[1]) = 0
    THEN [at |-> "return", path_list |-> loc.path_list]
    ELSE LET path_list == Append(loc.path_list, loc.ski[1])
             parent == get_parent(self, loc.ski[1])
         IN  IF parent = loc.ski
             THEN [at |-> "return", path_list |-> path_list]
             ELSE [at |-> "loop", ski |-> parent, path_list |-> path_list]

(***************************************************************************)
(* The state machine: buildTree reads an archive, in any order and with    *)
(* any content, inserts its roa and ca_cert records and populates the      *)
(* resource dictionaries; the built tree is then queried.                  *)
(***************************************************************************)
VARIABLES
    tree,       \* the PKITree object
    phase,      \* "building" (in buildTree's loop) or "built"
    pc,         \* "idle", or "get_path" inside a call of get_path
    loc,        \* the locals of the running get_path call
    ret,        \* the last call: [op, args, exc, val]
    first_aki   \* history: ski -> the aki of the first insert_node(ski, ..)

vars == <<tree, phase, pc, loc, ret, first_aki>>

ResourceTypes == {"all", "ca_cert", "roa"}
\* the SKIs get_resource_list is called for
ResourceRoots == {"R", "C", "A", "B", "Z"}
QueryAsns == {Asn(65000), Asn(65001), Asn(64512), Asn(64514), Asn(65010)}
\* ASNs in text: AS<n> for these n, and texts that have no prefix, another
\* prefix or no digits
QueryAsnNumbers == {65000, 65001, 64512, 0, 196608}
AsText(n) == <<"A", "S">> \o str_of_int(n)
QueryAsnTexts ==
    {AsText(n) : n \in QueryAsnNumbers}
        \cup {str_of_int(64512), <<"a", "s">> \o str_of_int(64512),
              <<"A", "S">>}
\* 10.1.1.0/24, 10.1.0.0/16, 10.0.0.0/8, 10.2.0.2/32, 10.2.0.3/32,
\* 2001:db8::/32, 2001:db8::/33, 11.0.0.0/8
QueryPrefixes == {Pfx4(655617, 24), Pfx4(2561, 16), Pfx4(10, 8),
                  Pfx4(167903234, 32), Pfx4(167903235, 32),
                  Pfx6(536939960, 32), Pfx6(1073879920, 33),
                  Pfx4(11, 8)}

NoLoc == [ski |-> None, path_list |-> <<>>]
Call(op, args, r) == [op |-> op, args |-> args, exc |-> r.exc, val |-> r.val]

Init ==
    /\ tree = PKITree_init
    /\ phase = "building"
    /\ pc = "idle"
    /\ loc = NoLoc
    /\ ret = Call("PKITree", <<>>, Return(None))
    /\ first_aki = <<>>

\* one pass of buildTree's loop over a roa or ca_cert record
buildTree_insert(data) ==
    /\ phase = "building"
    /\ "type" \in DOMAIN data
    /\ data.type = "roa" \/ data.type = "ca_cert"
    /\ LET ski == data.ski
           aki == IF "aki" \notin DOMAIN data THEN "" ELSE data.aki
       IN  /\ HasKey(tree.node_data, ski) \/ Len(tree.node_data) < MaxNodes
           /\ tree' = insert_node(tree, ski, aki, data)
           /\ ret' = Call("insert_node", <<ski, aki, data>>, Return(None))
           /\ first_aki' = IF HasKey(first_aki, ski) THEN first_aki
                           ELSE DictSet(first_aki, ski, aki)
    /\ UNCHANGED <<phase, pc, loc>>

\* one pass of buildTree's loop over any other record
buildTree_skip(data) ==
    /\ phase = "building"
    /\ \/ "type" \notin DOMAIN data
       \/ "type" \in DOMAIN data /\ data.type # "roa" /\ data.type # "ca_cert"
    /\ ret' = Call("skip", <<data>>, Return(None))
    /\ UNCHANGED <<tree, phase, pc, loc, first_aki>>

\* the end of buildTree: it returns the tree, or populate_resources raises
\* and there is no tree to query
buildTree_populate ==
    /\ phase = "building"
    /\ LET r == populate_resources(tree)
       IN  /\ tree' = r.self
           /\ ret' = Call("populate_resources", <<>>,
                          [exc |-> r.exc, val |-> None])
           /\ phase' = IF r.exc = "" THEN "built" ELSE "failed"
    /\ UNCHANGED <<pc, loc, first_aki>>

\* app.main runs again on every interaction, with the tree load_tree
\* cached; what the run before it displayed is gone
app_rerun ==
    /\ phase = "built"
    /\ pc = "idle"
    /\ ret.op # "main"
    /\ ret' = Call("main", <<>>, Return(None))
    /\ UNCHANGED <<tree, phase, pc, loc, first_aki>>

\* a query of the built tree is made from a run of main; ret keeps the one
\* call a run is observed at
Observing == ret.op = "main"

Query(op, args, r, self_after) ==
    /\ phase = "built"
    /\ pc = "idle"
    /\ Observing
    /\ ret' = Call(op, args, r)
    /\ tree' = self_after
    /\ UNCHANGED <<phase, pc, loc, first_aki>>

call_get_parent(ski) ==
    Query("get_parent", <<ski>>, Return(get_parent(tree, ski)),
          get_parent_self(tree, ski))
call_get_children(ski) ==
    Query("get_children", <<ski>>, Return(get_children(tree, ski)),
          get_children_self(tree, ski))
call_get_data(ski) ==
    Query("get_data", <<ski>>, Return(get_data(tree, ski)),
          get_data_self(tree, ski))
call_get_url(ski) ==
    Query("get_url", <<ski>>, get_url(tree, ski), get_data_self(tree, ski))
call_get_ca_domain(ski) ==
    Query("get_ca_domain", <<ski>>, get_ca_domain(tree, ski),
          get_data_self(tree, ski))
call_is_roa(ski) ==
    Query("is_roa", <<ski>>, Return(is_roa(tree, ski)),
          get_data_self(tree, ski))
call_is_rir_owned_rc(ski) ==
    Query("is_rir_owned_rc", <<ski>>, Return(is_rir_owned_rc(tree, ski)),
          get_data_self(tree, ski))
call_is_end_node_certificate(ski) ==
    Query("is_end_node_certificate", <<ski>>,
          Return(is_end_node_certificate(tree, ski)),
          after_lookups(tree, <<ski>>))
call_has_issued_roas(ski) ==
    Query("has_issued_roas", <<ski>>, Return(has_issued_roas(tree, ski)),
          after_lookups(tree, <<ski>>))
call_get_root_dict ==
    Query("get_root_dict", <<>>, Return(get_root_dict(tree)), tree)
call_get_resource_list(root, resource_type, recursive) ==
    Query("get_resource_list", <<root, resource_type, recursive>>,
          get_resource_list(tree, root, resource_type, recursive),
          after_lookups(tree, <<root>>))
call_search_asn(asn, resource_type) ==
    Query("search_asn", <<asn, resource_type>>,
          Return(search_asn(tree, asn, resource_type)),
          after_lookups(tree, DictKeys(tree.resource_dict_asn)))
call_search_asn_str(asn, resource_type) ==
    Query("search_asn_str", <<asn, resource_type>>,
          search_asn_str(tree, asn, resource_type),
          after_lookups(tree, DictKeys(tree.resource_dict_asn)))
call_search_prefix(prefix, resource_type) ==
    Query("search_prefix", <<prefix, resource_type>>,
          Return(search_prefix(tree, prefix, resource_type)),
          after_lookups(tree, DictKeys(tree.resource_dict_pfx_v4)
                              \o DictKeys(tree.resource_dict_pfx_v6)))

\* get_path(ski): the call, then the passes of its loop
get_path_call(ski) ==
    /\ phase = "built"
    /\ pc = "idle"
    /\ Observing
    /\ pc' = "get_path"
    /\ loc' = [ski |-> Some(ski), path_list |-> <<>>]
    /\ ret' = Call("get_path", <<ski>>, Return(None))
    /\ UNCHANGED <<tree, phase, first_aki>>

get_path_step ==
    /\ pc = "get_path"
    /\ Len(loc.path_list) < MaxPathLen
    /\ LET r == get_path_pass(tree, loc)
       IN  \/ /\ r.at = "loop"
              /\ loc' = [ski |-> r.ski, path_list |-> r.path_list]
              /\ UNCHANGED <<pc, ret>>
           \/ /\ r.at = "return"
              /\ ret' = [ret EXCEPT !.val = Some(r.path_list)]
              /\ pc' = "idle"
              /\ loc' = NoLoc
           \/ /\ r.at = "raise"
              /\ ret' = [ret EXCEPT !.exc = r.exc]
              /\ pc' = "idle"
              /\ loc' = NoLoc
    /\ tree' = IF loc.ski = None \/ loc.ski = Some("") THEN tree
               ELSE get_parent_self(tree, loc.ski[1])
    /\ UNCHANGED <<phase, first_aki>>

Next ==
    \/ \E data \in Archive : buildTree_insert(data)
    \/ \E data \in Archive : buildTree_skip(data)
    \/ buildTree_populate
    \/ app_rerun
    \/ \E ski \in QuerySkis : call_get_parent(ski)
    \/ \E ski \in QuerySkis : call_get_children(ski)
    \/ \E ski \in QuerySkis : call_get_data(ski)
    \/ \E ski \in QuerySkis : call_get_url(ski)
    \/ \E ski \in QuerySkis : call_get_ca_domain(ski)
    \/ \E ski \in QuerySkis : call_is_roa(ski)
    \/ \E ski \in QuerySkis : call_is_rir_owned_rc(ski)
    \/ \E ski \in QuerySkis : call_is_end_node_certificate(ski)
    \/ \E ski \in QuerySkis : call_has_issued_roas(ski)
    \/ call_get_root_dict
    \/ \E root \in ResourceRoots, rt \in ResourceTypes, recursive \in BOOLEAN :
           call_get_resource_list(root, rt, recursive)
    \/ \E asn \in QueryAsns, rt \in ResourceTypes : call_search_asn(asn, rt)
    \/ \E asn \in QueryAsnTexts, rt \in ResourceTypes :
           call_search_asn_str(asn, rt)
    \/ \E pfx \in QueryPrefixes, rt \in ResourceTypes :
           call_search_prefix(pfx, rt)
    \/ \E ski \in QuerySkis : get_path_call(ski)
    \/ get_path_step

Spec == Init /\ [][Next]_vars

(***************************************************************************)
(* get_cidr on its own: a call for each range between two addresses of the *)
(* window 10.0.0.248 to 10.0.1.7 (across the end of a /24) and for the two *)
(* ranges 10.0.0.0 to 10.0.0.255 and 10.0.0.1 to 10.0.0.2.                 *)
(***************************************************************************)
CidrAddrs == {167772408 + i : i \in 0..(CidrWindow - 1)}
CidrInputs ==
    (CidrAddrs \X CidrAddrs)
        \cup {<<167772160, 167772415>>, <<167772161, 167772162>>}

CidrInit ==
    /\ tree = PKITree_init
    /\ phase = "get_cidr"
    /\ pc = "get_cidr"
    /\ loc = NoLoc
    /\ first_aki = <<>>
    /\ \E args \in CidrInputs : ret = Call("get_cidr", args, Return(None))

get_cidr_return ==
    /\ phase = "get_cidr"
    /\ pc = "get_cidr"
    /\ ret' = Call("get_cidr", ret.args, get_cidr(ret.args[1], ret.args[2]))
    /\ pc' = "idle"
    /\ UNCHANGED <<tree, phase, loc, first_aki>>

CidrNext == get_cidr_return

CidrSpec == CidrInit /\ [][CidrNext]_vars

(***************************************************************************)
(* get_root_dict on its own: buildTree over records of TalArchive, then    *)
(* runs of main that call get_root_dict.                                   *)
(***************************************************************************)
RootDictNext ==
    \/ \E data \in TalArchive : buildTree_insert(data)
    \/ \E data \in TalArchive : buildTree_skip(data)
    \/ buildTree_populate
    \/ app_rerun
    \/ call_get_root_dict

RootDictSpec == Init /\ [][RootDictNext]_vars

(***************************************************************************)
(* search_asn with a str on its own: buildTree over records of AsnArchive, *)
(* then runs of main that call search_asn with a text.  The texts are      *)
(* AS<n> for the integers of SearchAsnNumbers, among them the largest ASN, *)
(* 2^32, a negative one, the smallest integer of int_max_str_digits digits *)
(* and the smallest of one digit more, and texts that are not of that      *)
(* form.                                                                   *)
(***************************************************************************)
\* the integer 10^k: of the digit 1 and k zeros
PowerOfTen(k) == int_value(<<1>> \o [i \in 1..k |-> 0], FALSE)
SearchAsnNumbers ==
    {Asn(0), Asn(64512), Asn(65001), Asn(196608), MAX_ASN_NUM,
     AsnNegate(Asn(5)),
     <<4, 2, 9, 4, 9, 6, 7, 2, 9, 6>>,
     PowerOfTen(int_max_str_digits - 1),
     PowerOfTen(int_max_str_digits)}
AsnText(n) == <<"A", "S">> \o str_of_integer(n)
\* 64512 in Arabic-Indic digits, "AS64512" between U+1680 and U+3000,
\* 64512 after zeros up to int_max_str_digits digits and after one more,
\* texts int does not take, 64512 with a sign and an underscore between a
\* vertical tab and U+00A0, and 64512 with AS inside
SearchAsnTexts ==
    {AsnText(n) : n \in SearchAsnNumbers}
        \cup {<<"A", "S", "U+0666", "U+0664", "U+0665", "U+0661", "U+0662">>,
              <<"U+1680">> \o AsnText(Asn(64512)) \o <<"U+3000">>,
              <<"A", "S">> \o [i \in 1..(int_max_str_digits - 5) |-> "0"]
                  \o str_of_integer(Asn(64512)),
              <<"A", "S">> \o [i \in 1..(int_max_str_digits - 4) |-> "0"]
                  \o str_of_integer(Asn(64512)),
              <<"a", "s", "6", "4", "5", "1", "2">>,
              <<"A", "S">>,
              <<"A", "S", "U+2212", "5">>,
              <<"A", "S", "", "+", "6", "4", "_", "5", "1", "2", " ">>,
              <<"6", "A", "S", "4", "5", "1", "2">>}

SearchAsnNext ==
    \/ \E data \in AsnArchive : buildTree_insert(data)
    \/ \E data \in AsnArchive : buildTree_skip(data)
    \/ buildTree_populate
    \/ app_rerun
    \/ \E asn \in SearchAsnTexts, rt \in ResourceTypes :
           call_search_asn_str(asn, rt)

SearchAsnSpec == Init /\ [][SearchAsnNext]_vars

(***************************************************************************)
(* Properties.                                                             *)
(***************************************************************************)
KeySet(d) == Range(DictKeys(d))
Inserted == KeySet(first_aki)
\* the akis of the records that were inserted
NamedAkis == {first_aki[i][2] : i \in 1..Len(first_aki)}
\* position of ski in the order of the first insertions
InsertedAt(ski) == CHOOSE i \in 1..Len(first_aki) : first_aki[i][1] = ski
NoDuplicates(seq) == \A i, j \in 1..Len(seq) : seq[i] = seq[j] => i = j

\* C1: after any inserts, in any order, get_parent of every inserted ski is
\* the aki of its first insertion (the empty string when that aki was the
\* ski itself), and get_parent is not None for any SKI that an inserted
\* record named as its aki, inserted itself or not.
C1_ParentIsFirstAki ==
    /\ \A i \in 1..Len(first_aki) :
           LET ski == first_aki[i][1]
               aki == first_aki[i][2]
           IN  get_parent(tree, ski) = Some(IF aki = ski THEN "" ELSE aki)
    /\ \A x \in NamedAkis : get_parent(tree, x) # None

\* A was inserted before its issuer C, and B names X, which has no record
C1_Witness ==
    /\ {"A", "B", "C"} \subseteq Inserted
    /\ DictGet(first_aki, "A") = "C"
    /\ InsertedAt("A") < InsertedAt("C")
    /\ DictGet(first_aki, "B") = "X"
    /\ "X" \notin Inserted
    /\ get_parent(tree, "X") = Some("")

\* C2: every get_path walk ends, also on a parent map with a cycle of two
\* or more nodes.  The walk is a function of the SKI it stands on, so it
\* ends exactly when it never comes back to an SKI already on its path.
C2_GetPathEnds == pc = "get_path" => NoDuplicates(loc.path_list)

\* C3: insert_node of a ski that has a record changes nothing of the
\* object, whatever aki and data it is called with.
C3_DuplicateInsertIsNoOp ==
    [][(ret'.op = "insert_node" /\ HasKey(tree.node_data, ret'.args[1]))
           => tree' = tree]_vars

\* the last insert_node offered, for a ski with children, another aki and
\* another record than the ones stored
C3_Witness ==
    /\ ret.op = "insert_node"
    /\ HasKey(tree.node_data, ret.args[1])
    /\ DictGet(tree.node_data, ret.args[1]) # ret.args[3]
    /\ get_parent(tree, ret.args[1]) # Some(ret.args[2])
    /\ get_children(tree, ret.args[1]) # None

\* the end-to-end scenario: buildTree has read the root CA R, its child CA
\* C and the ROA A under C, in any order, and has returned
ScenarioBuilt ==
    /\ phase = "built"
    /\ Range(tree.node_data) = {<<"R", RecR>>, <<"C", RecC>>, <<"A", RecA>>}

\* C4 as claimed: in the scenario search_asn(65000) returns [R].
C4_RootAsnFound ==
    (ScenarioBuilt /\ ret.op = "search_asn"
         /\ ret.args = <<Asn(65000), "all">>)
        => ret.val = <<"R">>

\* C4: in the scenario search_asn(65000) returns the empty list: R carries
\* tal, is_rir_owned_rc(R) is True and populate_resources passes over it, so
\* the root's own ASN is in no index.
C4_RootAsnNotIndexed ==
    (ScenarioBuilt /\ ret.op = "search_asn"
         /\ ret.args = <<Asn(65000), "all">>)
        => /\ ret.val = <<>>
           /\ is_rir_owned_rc(tree, "R") = Some(TRUE)
           /\ ~HasKey(tree.resource_dict_asn, "R")

C4_Witness ==
    /\ ScenarioBuilt
    /\ ret.op = "search_asn"
    /\ ret.args = <<Asn(65000), "all">>
    /\ Resource("asid", Asn(65000)) \in Range(RecR.subordinate_resources)

\* what the items of a record's own resources declare: prefix texts (a
\* range as its CIDR blocks) and ASNs (no range up to the ceiling)
OwnItems(data) ==
    UNION {Range(r) : r \in Range(data.subordinate_resources)}
OwnPrefixes(data) ==
    UNION {IF it[1] = "ip_prefix" THEN {it[2]}
           ELSE IF it[1] = "ip_range"
           THEN Range(get_cidr(it[2].min, it[2].max).val)
           ELSE {} : it \in OwnItems(data)}
OwnAsns(data) ==
    UNION {IF it[1] = "asid" THEN {it[2]}
           ELSE IF it[1] = "asrange" /\ it[2].max # MAX_ASN_NUM
           THEN Range(asn_range(it[2].min, it[2].max))
           ELSE {} : it \in OwnItems(data)}
\* the texts "0.0.0.0/0" and "::/0" are not stored; the others under the
\* key PyTricia keeps for them
OwnTrie(ski, own, fam) ==
    [p \in {pytricia_key(q) :
                q \in {x \in own :
                          /\ x.fam = fam
                          /\ x # DefaultRoute4
                          /\ x # DefaultRoute6}}
        |-> ski]
\* the inserted SKIs that are neither ROAs nor RIR-owned certificates
Indexable ==
    {ski \in KeySet(tree.node_data) :
         /\ is_roa(tree, ski) = Some(FALSE)
         /\ is_rir_owned_rc(tree, ski) = Some(FALSE)}

\* C5: after populate_resources the three resource dictionaries have one
\* key set, the inserted SKIs that are neither ROAs nor RIR-owned, and the
\* entry of a ski holds what its own subordinate_resources declare and
\* nothing of its children or deeper descendants.
C5_IndexIsOwnResources ==
    phase = "built" =>
        LET indexable == Indexable
        IN  /\ KeySet(tree.resource_dict_pfx_v4) = indexable
            /\ KeySet(tree.resource_dict_pfx_v6) = indexable
            /\ KeySet(tree.resource_dict_asn) = indexable
            /\ \A ski \in indexable :
                   LET data == DictGet(tree.node_data, ski)
                       own == OwnPrefixes(data)
                   IN  /\ DictGet(tree.resource_dict_pfx_v4, ski)
                              = OwnTrie(ski, own, 4)
                       /\ DictGet(tree.resource_dict_pfx_v6, ski)
                              = OwnTrie(ski, own, 6)
                       /\ DictGet(tree.resource_dict_asn, ski)
                              = OwnAsns(data)

\* an indexed CA whose child has prefixes and ASNs of its own, next to a
\* ROA and an RIR-owned certificate that are not indexed
C5_Witness ==
    /\ phase = "built"
    /\ \E ski \in Indexable :
           /\ get_children(tree, ski) # None
           /\ \E i \in 1..Len(get_children(tree, ski)[1]) :
                  LET child == DictGet(tree.node_data,
                                       get_children(tree, ski)[1][i])
                  IN  child.type = "roa" /\ Len(child.vrps) > 0
    /\ \E ski \in KeySet(tree.node_data) : is_roa(tree, ski) = Some(TRUE)
    /\ \E ski \in KeySet(tree.node_data) :
           is_rir_owned_rc(tree, ski) = Some(TRUE)

\* C6: search_prefix(p, "all") returns, each once, exactly the SKIs whose
\* index of p's address family stores p or a supernet of p (none: the empty
\* list); in the scenario search_prefix("10.1.1.0/24") is [C].
C6_SearchPrefixIsCover ==
    (ret.op = "search_prefix" /\ ret.args[2] = "all") =>
        LET p == ret.args[1]
            dict == IF p.fam = 6 THEN tree.resource_dict_pfx_v6
                    ELSE tree.resource_dict_pfx_v4
        IN  /\ ret.exc = ""
            /\ NoDuplicates(ret.val)
            /\ Range(ret.val)
                   = {ski \in KeySet(dict) :
                          \E k \in DOMAIN DictGet(dict, ski) : Covers(k, p)}
            /\ (ScenarioBuilt /\ p = Pfx4(655617, 24)) => ret.val = <<"C">>

\* the scenario's search: C alone, which stores only the supernet
\* 10.1.0.0/16
C6_Witness ==
    /\ ScenarioBuilt
    /\ ret.op = "search_prefix"
    /\ ret.args = <<Pfx4(655617, 24), "all">>
    /\ ret.val = <<"C">>
    /\ Pfx4(655617, 24) \notin DOMAIN DictGet(tree.resource_dict_pfx_v4, "C")

\* the records of the tree, and the ASNs that its ROAs name as origins
\* and its CA certificates declare (asid, or asrange below the ceiling)
Records == {tree.node_data[i][2] : i \in 1..Len(tree.node_data)}
VrpOrigins ==
    UNION {{d.vrps[i].asid : i \in 1..Len(d.vrps)} :
               d \in {r \in Records : r.type = "roa"}}
CaDeclaredAsns ==
    UNION {OwnAsns(d) : d \in {r \in Records : r.type = "ca_cert"}}

\* C7: in a tree built by buildTree an ASN that is only the origin of ROA
\* VRPs, and that no CA certificate declares, is in no index, and search_asn
\* of it returns the empty list for every resource_type (search_asn(65001)
\* in the scenario).
C7_VrpOriginNotIndexed ==
    /\ phase = "built" =>
           \A asn \in VrpOrigins \ CaDeclaredAsns :
               \A i \in 1..Len(tree.resource_dict_asn) :
                   asn \notin tree.resource_dict_asn[i][2]
    /\ (ret.op = "search_asn"
            /\ ret.args[1] \in VrpOrigins \ CaDeclaredAsns)
           => ret = Call("search_asn", ret.args, Return(<<>>))

\* the scenario's search_asn(65001)
C7_Witness ==
    /\ ScenarioBuilt
    /\ ret.op = "search_asn"
    /\ ret.args[1] = Asn(65001)
    /\ Asn(65001) \in VrpOrigins \ CaDeclaredAsns

\* C8: get_url and get_ca_domain do not raise: for a ski without a record,
\* and for a record without file (get_ca_domain: also without carepository),
\* they return the not-found result.
C8_UrlAndDomainNeverRaise ==
    LET data == get_data(tree, ret.args[1])
    IN  /\ (ret.op = "get_url"
                /\ (data = None \/ "file" \notin DOMAIN data[1]))
               => ret.exc = "" /\ ret.val = None
        /\ (ret.op = "get_ca_domain"
                /\ (data = None
                        \/ {"file", "carepository"} \cap DOMAIN data[1] = {}))
               => ret.exc = "" /\ ret.val = None

\* the SKIs that the inserted records refer to as a parent: the aki of
\* each, and the empty string for a record that names itself (insert_node
\* clears its aki)
Referenced ==
    {IF first_aki[i][2] = first_aki[i][1] THEN "" ELSE first_aki[i][2] :
         i \in 1..Len(first_aki)}
\* a ski without a record that no inserted record refers to
Unknown(ski) == ski \notin Inserted \cup NamedAkis \cup Referenced

\* C9: get_path of a non-empty ski that was never inserted and never named
\* as a parent returns (a not-found result or a path) and does not raise.
C9_GetPathUnknownReturns ==
    (ret.op = "get_path" /\ pc = "idle"
         /\ ret.args[1] # "" /\ Unknown(ret.args[1]))
        => ret.exc = ""

\* C10: for a ski without a record that was never named, get_parent,
\* get_children and get_data return None, and is_roa, is_rir_owned_rc,
\* is_end_node_certificate and has_issued_roas return None, which is not
\* False; none of them raises.
C10_UnknownSkiGivesNone ==
    (ret.op \in {"get_parent", "get_children", "get_data", "is_roa",
                 "is_rir_owned_rc", "is_end_node_certificate",
                 "has_issued_roas"}
         /\ Unknown(ret.args[1]))
        => /\ ret.exc = ""
           /\ ret.val = None
           /\ ret.val # Some(FALSE)

\* has_issued_roas of Z, of which a tree of three nodes knows nothing
C10_Witness ==
    /\ ret.op = "has_issued_roas"
    /\ ret.args = <<"Z">>
    /\ Unknown("Z")
    /\ Len(tree.node_data) = 3

\* the records of the tree that carry a tal and have a SKI that is not
\* empty
TalNodes ==
    {i \in 1..Len(tree.node_data) :
        "tal" \in DOMAIN tree.node_data[i][2] /\ Len(tree.node_data[i][1]) > 0}
TalOf(i) == tree.node_data[i][2].tal

\* C11 as stated, read for the records whose SKI is not empty:
\* get_root_dict has exactly one entry per distinct tal value carried by an
\* inserted record, each mapping the uppercased tal to the SKI of the node
\* carrying it, also for tal values that differ in letter case only.
C11_OneEntryPerTal ==
    ret.op = "get_root_dict"
        => /\ Len(ret.val) = Cardinality({TalOf(i) : i \in TalNodes})
           /\ \A e \in Range(ret.val) :
                  \E i \in TalNodes : /\ e[1] = str_upper(TalOf(i))
                                      /\ e[2] = tree.node_data[i][1]

\* C11: get_root_dict has exactly one entry per distinct uppercased tal
\* value carried by an inserted record with a non-empty SKI; the entry maps
\* the uppercased tal to the SKI of the last inserted of the records whose
\* tal uppercases to it.
C11_OneEntryPerUpperTal ==
    ret.op = "get_root_dict"
        => /\ KeySet(ret.val) = {str_upper(TalOf(i)) : i \in TalNodes}
           /\ NoDuplicates(DictKeys(ret.val))
           /\ \A e \in Range(ret.val) :
                  \E i \in TalNodes :
                      /\ e[1] = str_upper(TalOf(i))
                      /\ e[2] = tree.node_data[i][1]
                      /\ \A j \in TalNodes :
                             str_upper(TalOf(j)) = e[1] => j <= i

\* three records with a tal: the one with the empty SKI has no entry, and
\* "Test" and "test" share the entry TEST, which names the later of the two
C11_Witness ==
    /\ ret.op = "get_root_dict"
    /\ HasKey(tree.node_data, "")
    /\ DictGet(tree.node_data, "").tal = Txt_ripe
    /\ {TalOf(i) : i \in TalNodes} = {Txt_test, Txt_Test}
    /\ \E i, j \in TalNodes :
           /\ i < j
           /\ TalOf(i) = Txt_Test
           /\ TalOf(j) = Txt_test
           /\ ret.val = <<<<Txt_TEST, tree.node_data[j][1]>>>>

\* following get_parent from ski comes to an end (a node whose parent is
\* empty or itself) within fuel steps
RECURSIVE ChainEnds(_, _)
ChainEnds(ski, fuel) ==
    LET parent == get_parent(tree, ski)
    IN  IF parent = None THEN FALSE
        ELSE IF parent[1] = "" \/ parent[1] = ski THEN TRUE
        ELSE IF fuel = 0 THEN FALSE
        ELSE ChainEnds(parent[1], fuel - 1)
\* ski is a non-empty SKI of the tree whose parent chain has no cycle
AcyclicChain(ski) ==
    /\ ski # ""
    /\ ChainEnds(ski, Len(tree.child_to_parent))

\* C12: for a SKI of the tree whose parent chain is acyclic, get_path
\* returns the chain from the leaf to the root: its first element is the
\* ski, each later element is get_parent of the one before, no element is
\* the empty string, and the parent of the last element is empty or that
\* element itself; the walk never stands on one SKI twice.
C12_PathIsParentChain ==
    /\ (ret.op = "get_path" /\ pc = "idle" /\ AcyclicChain(ret.args[1]))
           => /\ ret.exc = ""
              /\ ret.val # None
              /\ LET p == ret.val[1]
                 IN  /\ Len(p) >= 1
                     /\ p[1] = ret.args[1]
                     /\ \A i \in 2..Len(p) :
                            get_parent(tree, p[i - 1]) = Some(p[i])
                     /\ \A i \in 1..Len(p) : p[i] # ""
                     /\ get_parent(tree, p[Len(p)])
                            \in {Some(""), Some(p[Len(p)])}
    /\ (pc = "get_path" /\ AcyclicChain(ret.args[1]))
           => /\ NoDuplicates(loc.path_list)
              /\ Len(loc.path_list) <= Len(tree.child_to_parent)

\* the scenario's path from the ROA up to the root
C12_Witness ==
    /\ ret.op = "get_path"
    /\ pc = "idle"
    /\ ret.args = <<"A">>
    /\ AcyclicChain("A")
    /\ ret.val = Some(<<"A", "C", "R">>)

\* the query methods of PKITree
QueryOps ==
    {"get_parent", "get_children", "get_data", "get_url", "get_ca_domain",
     "get_path", "get_root_dict", "get_resource_list", "is_roa",
     "is_rir_owned_rc", "is_end_node_certificate", "has_issued_roas",
     "search_asn", "search_asn_str", "search_prefix"}

\* C13: every step of every query method, whether it returns or raises,
\* leaves node_data, parent_to_child, child_to_parent and the three
\* resource dictionaries as they were.
C13_QueriesChangeNothing ==
    [][ret'.op \in QueryOps
           => /\ tree'.node_data = tree.node_data
              /\ tree'.parent_to_child = tree.parent_to_child
              /\ tree'.child_to_parent = tree.child_to_parent
              /\ tree'.resource_dict_pfx_v4 = tree.resource_dict_pfx_v4
              /\ tree'.resource_dict_pfx_v6 = tree.resource_dict_pfx_v6
              /\ tree'.resource_dict_asn = tree.resource_dict_asn]_vars

\* get_parent was asked for Z, of which the three dictionaries of a tree of
\* three nodes have no key
C13_Witness ==
    /\ ret.op = "get_parent"
    /\ ret.args = <<"Z">>
    /\ ret.val = None
    /\ Len(tree.node_data) = 3
    /\ ~HasKey(tree.child_to_parent, "Z")
    /\ ~HasKey(tree.parent_to_child, "Z")
    /\ ~HasKey(tree.node_data, "Z")

\* the addresses of an IPv4 prefix
BlockSize(p) == 2 ^ (32 - p.len)
BlockFirst(p) == p.net * BlockSize(p)
BlockLast(p) == BlockFirst(p) + BlockSize(p) - 1
BlockAddrs(p) == BlockFirst(p)..BlockLast(p)
\* the CIDR blocks that lie within s..e
BlocksWithin(s, e) ==
    {Pfx4(a \div (2 ^ k), 32 - k) :
        <<a, k>> \in {x \in (s..e) \X (0..30) :
                         /\ 2 ^ x[2] <= e - s + 1
                         /\ x[1] % (2 ^ x[2]) = 0
                         /\ x[1] + 2 ^ x[2] - 1 <= e}}
\* those of them that lie in no larger block within s..e
MaximalBlocks(s, e) ==
    {p \in BlocksWithin(s, e) :
        \A q \in BlocksWithin(s, e) :
            BlockAddrs(p) \subseteq BlockAddrs(q) => q = p}

\* C14: for start <= end, get_cidr(start, end) returns CIDR blocks in
\* ascending order that are pairwise disjoint, each aligned to its size,
\* whose union is exactly start..end, and no shorter list of CIDR blocks
\* covers exactly that range; 10.0.0.0 to 10.0.0.255 gives 10.0.0.0/24 and
\* 10.0.0.1 to 10.0.0.2 gives 10.0.0.1/32, 10.0.0.2/32.
C14_CidrIsMinimalCover ==
    (ret.op = "get_cidr" /\ pc = "idle" /\ ret.args[1] <= ret.args[2])
        => LET s == ret.args[1]
               e == ret.args[2]
               out == ret.val
               nets == summarize_address_range(s, e)
           IN  /\ ret.exc = ""
               /\ Len(out) = Len(nets)
               /\ \A i \in 1..Len(out) :
                      /\ out[i].fam = 4
                      /\ out[i].len = nets[i].prefixlen
                      /\ BlockFirst(out[i]) = nets[i].addr
                      /\ nets[i].addr % BlockSize(out[i]) = 0
               /\ \A i \in 1..(Len(out) - 1) :
                      BlockLast(out[i]) < BlockFirst(out[i + 1])
               /\ UNION {BlockAddrs(out[i]) : i \in 1..Len(out)} = s..e
               /\ Range(out) = MaximalBlocks(s, e)
               /\ Cardinality(Range(out)) = Len(out)
               /\ e - s < MaxBruteRange
                      => \A cover \in SUBSET BlocksWithin(s, e) :
                             UNION {BlockAddrs(p) : p \in cover} = s..e
                                 => Cardinality(cover) >= Len(out)
               /\ ret.args = <<167772160, 167772415>>
                      => out = <<Pfx4(655360, 24)>>
               /\ ret.args = <<167772161, 167772162>>
                      => out = <<Pfx4(167772161, 32), Pfx4(167772162, 32)>>

\* 10.0.0.250 to 10.0.1.5, across the end of a /24, takes four blocks:
\* 10.0.0.250/31, 10.0.0.252/30, 10.0.1.0/30, 10.0.1.4/31
C14_Witness ==
    /\ ret.op = "get_cidr"
    /\ pc = "idle"
    /\ ret.args = <<167772410, 167772421>>
    /\ ret.val = <<Pfx4(83886205, 31), Pfx4(41943103, 30),
                   Pfx4(41943104, 30), Pfx4(83886210, 31)>>

\* the number of digits of str(n)
DigitCount(n) == Len(SelectSeq(str_of_integer(n), LAMBDA c : c # "-"))

\* C15 as stated: search_asn of the text AS<n> returns what search_asn of
\* the integer n returns, for every n and every resource_type, and does not
\* raise.
C15_AsnTextIsAsnNumber ==
    ret.op = "search_asn_str"
        => \A n \in SearchAsnNumbers :
               ret.args[1] = AsnText(n)
                   => /\ ret.exc = ""
                      /\ ret.val = search_asn(tree, n, ret.args[2])

\* C15: for every integer n of at most int_max_str_digits digits and every
\* resource_type, search_asn of the text AS<n> returns what search_asn of
\* the integer n returns; for an n of more digits the text raises
\* ValueError.
C15_AsnTextIsAsnNumberInLimit ==
    ret.op = "search_asn_str"
        => \A n \in SearchAsnNumbers :
               ret.args[1] = AsnText(n)
                   => IF DigitCount(n) <= int_max_str_digits
                      THEN /\ ret.exc = ""
                           /\ ret.val = search_asn(tree, n, ret.args[2])
                      ELSE ret.exc = "ValueError"

\* "AS64512" finds the two certificates that declare 64512, B by an asid
\* and C in a range, as the integer does
C15_Witness ==
    /\ ret.op = "search_asn_str"
    /\ ret.args = <<AsnText(Asn(64512)), "ca_cert">>
    /\ ret.args[1] = <<"A", "S", "6", "4", "5", "1", "2">>
    /\ ret.exc = ""
    /\ Range(ret.val) = {"B", "C"}
    /\ ret.val = search_asn(tree, <<0, 64512>>, "ca_cert")

\* C16: the ASN set that get_resource_list returns holds no ASN on account
\* of its being the origin of a VRP: every ASN of the set is one that a CA
\* certificate of the tree declares.
C16_NoVrpOriginInAsnSet ==
    (ret.op = "get_resource_list" /\ ret.exc = "")
        => ret.val[3] \subseteq CaDeclaredAsns

\* root and its descendants at any depth, by parent_to_child
RECURSIVE Reach(_, _)
Reach(skis, fuel) ==
    IF fuel = 0 THEN skis
    ELSE Reach(skis \cup UNION {Range(get_children(tree, s)[1]) :
                                   s \in {x \in skis :
                                             get_children(tree, x) # None}},
               fuel - 1)
Subtree(root) == Reach({root}, Len(tree.child_to_parent))
AcyclicTree ==
    \A ski \in KeySet(tree.child_to_parent) \ {""} : AcyclicChain(ski)
VrpPrefixes(data) == {data.vrps[i].prefix : i \in 1..Len(data.vrps)}
\* not a default route, however it is spelled
NotDefaultRoute(p) == p.len # 0

\* C17: on an acyclic tree get_resource_list(root, resource_type, True)
\* visits root and every descendant, and resource_type only leaves out what
\* nodes of the other type contribute: with "roa" or "all" the tries hold
\* the VRP prefixes (default routes aside) of every ROA of the subtree, also
\* of ROAs below intermediate CA certificates; with "ca_cert" or "all" they
\* hold the prefixes, and the set the ASNs, of every CA certificate of it.
C17_RecursiveVisitsSubtree ==
    (ret.op = "get_resource_list" /\ ret.args[3] /\ ret.exc = ""
         /\ AcyclicTree)
        => \A ski \in Subtree(ret.args[1]) \cap KeySet(tree.node_data) :
               LET data == DictGet(tree.node_data, ski)
                   stored == DOMAIN ret.val[1] \cup DOMAIN ret.val[2]
               IN  /\ (data.type = "roa" /\ ret.args[2] \in {"all", "roa"})
                          => {pytricia_key(p) :
                                  p \in {x \in VrpPrefixes(data) :
                                            NotDefaultRoute(x)}}
                                 \subseteq stored
                   /\ (data.type = "ca_cert"
                           /\ ret.args[2] \in {"all", "ca_cert"})
                          => /\ {pytricia_key(p) :
                                     p \in {x \in OwnPrefixes(data) :
                                               NotDefaultRoute(x)}}
                                    \subseteq stored
                             /\ OwnAsns(data) \subseteq ret.val[3]

\* C18: for a ski with a record has_issued_roas is True exactly when the
\* record is a ca_cert, is not RIR-owned and has at least one direct child
\* that is a ROA, and False otherwise, so False for a ca_cert with no
\* children.
C18_IssuedRoasIffRoaChild ==
    (ret.op = "has_issued_roas" /\ HasKey(tree.node_data, ret.args[1]))
        => LET ski == ret.args[1]
               data == DictGet(tree.node_data, ski)
               child_list == get_children(tree, ski)
               issued ==
                   /\ data.type = "ca_cert"
                   /\ is_rir_owned_rc(tree, ski) # Some(TRUE)
                   /\ child_list # None
                   /\ \E c \in Range(child_list[1]) :
                          is_roa(tree, c) = Some(TRUE)
           IN  /\ ret.exc = ""
               /\ ret.val = Some(issued)

\* how many times x is in seq
Count(seq, x) == Cardinality({i \in 1..Len(seq) : seq[i] = x})

\* C19: parent_to_child and child_to_parent agree on every edge.  An
\* inserted ski is in the children list of a exactly when the aki of its
\* first insertion was a and a is not the ski, and then once; so every
\* inserted ski with an aki other than itself is among the children of its
\* parent (a root with an empty aki among those of the empty string), and a
\* self-issued ski has the parent "" and is in no children list.
C19_MapsAgree ==
    /\ \A i \in 1..Len(tree.parent_to_child) :
           LET a == tree.parent_to_child[i][1]
               children == tree.parent_to_child[i][2]
           IN  /\ Range(children) \subseteq Inserted
               /\ \A c \in Range(children) : get_parent(tree, c) = Some(a)
               /\ \A ski \in Inserted :
                      Count(children, ski) =
                          IF DictGet(first_aki, ski) = a /\ a # ski
                          THEN 1 ELSE 0
    /\ \A ski \in Inserted :
           IF DictGet(first_aki, ski) = ski
           THEN /\ get_parent(tree, ski) = Some("")
                /\ \A i \in 1..Len(tree.parent_to_child) :
                       ski \notin Range(tree.parent_to_child[i][2])
           ELSE /\ get_parent(tree, ski) # None
                /\ get_children(tree, get_parent(tree, ski)[1]) # None
                /\ Count(get_children(tree, get_parent(tree, ski)[1])[1],
                         ski) = 1

\* the root R is listed under the empty string, C under R, and the
\* self-issued S, offered twice, nowhere
C19_Witness ==
    /\ Inserted = {"R", "C", "S"}
    /\ ret.op = "insert_node"
    /\ ret.args[1] = "S"
    /\ InsertedAt("S") < 3
    /\ get_children(tree, "") = Some(<<"R">>)
    /\ get_children(tree, "R") = Some(<<"C">>)
    /\ get_parent(tree, "S") = Some("")
    /\ get_children(tree, "S") = None

=============================================================================
